---- MODULE Spec2Model ----
(***************************************************************************)
(* Model of tagstr's ingestion core:                                       *)
(*   - NostrService (src/src/services/NostrService.ts): relay statuses,    *)
(*     the per-hashtag event lists and the per-hashtag relay distribution; *)
(*   - StandardRelayDiscovery (src/src/utils/relayDiscovery.ts): the relay *)
(*     recommendation table, its processors and its ranking.               *)
(* Strings the code inspects character by character (hashtags, URLs,       *)
(* event content) are sequences of one-character strings.                  *)
(***************************************************************************)
EXTENDS Integers, Sequences, FiniteSets, TLC

VARIABLES
    \* ---- NostrService ----
    relayStatuses,            \* Map<string, RelayStatus> (url -> status)
    relayStatusesPub,         \* last value pushed on relayStatuses$
    subscriptions,            \* live subscriptions per relay url (transport)
    eventCounts,              \* EventsByKind
    hashtagEvents,            \* Map<string, NostrEvent[]>
    hashtagRelayDistribution, \* Map<string, Map<string, number>>
    relayListRequests,        \* pubkeys whose kind-10002 list is being loaded
    deliveryCalls,            \* history: trackHashtagRelayDistribution calls per <<topic, relay>>
    recorded,                 \* history: ids in the order trackHashtagEvents inserted them, per topic
    stopCleanup,              \* the value stopCleanup$ holds
    cleanupTimer,             \* the timer pipeline of startCleanupTimer: "running" or "completed"
    reader,                   \* a caller holding what getHashtagEvents returned to it
    subscriptionRequests,     \* per url, the since of the subscription opened last, and when
    \* ---- StandardRelayDiscovery ----
    relayRecommendations,     \* Map<url, entry>, in insertion order
    followedPubkeys,          \* Set<string>
    config,                   \* StandardRelayDiscoveryConfig
    now,                      \* Date.now(), in ms
    lastCall,                 \* the last discovery call and what it returned
    restored                  \* a second engine, built by importData(exportData())

timerVars == <<stopCleanup, cleanupTimer>>
readerVars == <<reader>>
serviceVars == <<relayStatuses, relayStatusesPub, subscriptions, eventCounts,
                 hashtagEvents, hashtagRelayDistribution, relayListRequests,
                 deliveryCalls, recorded, timerVars, readerVars, subscriptionRequests>>
discoveryVars == <<relayRecommendations, followedPubkeys, config, now, lastCall, restored>>
vars == <<serviceVars, discoveryVars>>

-----------------------------------------------------------------------------
(* Generic helpers *)

Range(s) == {s[i] : i \in DOMAIN s}

(* Body applied to the value of e.  The value is computed once, whatever the  *)
(* number of uses Body makes of it: this is how the sequential statements of  *)
(* the code (const x = ...; then uses of x) are written below.                *)
Bind(e, Body(_)) == CHOOSE r \in {Body(v) : v \in {e}} : TRUE

RECURSIVE SeqSum(_)
SeqSum(s) == IF s = <<>> THEN 0 ELSE Head(s) + SeqSum(Tail(s))

RECURSIVE SetSum(_, _)
SetSum(f, S) == IF S = {} THEN 0
                ELSE LET x == CHOOSE y \in S : TRUE IN f[x] + SetSum(f, S \ {x})

\* the elements of s at the indices Test holds of, in order
SelectSeqIdx(s, Test(_)) ==
    Bind({i \in DOMAIN s : Test(i)}, LAMBDA keep :
        [k \in 1..Cardinality(keep) |->
            s[CHOOSE i \in keep : Cardinality({j \in keep : j <= i}) = k]])

Take(s, n) == SubSeq(s, 1, IF Len(s) < n THEN Len(s) ELSE n)

Max(a, b) == IF a >= b THEN a ELSE b

StartsWith(s, p) == Len(p) <= Len(s) /\ SubSeq(s, 1, Len(p)) = p
EndsWith(s, p) == Len(p) <= Len(s) /\ SubSeq(s, Len(s) - Len(p) + 1, Len(s)) = p

\* JavaScript's undefined where the code stores or tests it (RelayStatus.error, a
\* missing field of imported data)
Undefined == "undefined"

-----------------------------------------------------------------------------
(* Characters *)

UpperAlpha == <<"A","B","C","D","E","F","G","H","I","J","K","L","M",
                "N","O","P","Q","R","S","T","U","V","W","X","Y","Z">>
LowerAlpha == <<"a","b","c","d","e","f","g","h","i","j","k","l","m",
                "n","o","p","q","r","s","t","u","v","w","x","y","z">>
Digits == {"0","1","2","3","4","5","6","7","8","9"}

LowerSet == {LowerAlpha[i] : i \in 1..26}
UpperSet == {UpperAlpha[i] : i \in 1..26}

IsLower(c) == c \in LowerSet
IsUpper(c) == c \in UpperSet
IsAlpha(c) == IsLower(c) \/ IsUpper(c)
IsDigit(c) == c \in Digits

LowerChar(c) == IF IsUpper(c)
                THEN LowerAlpha[CHOOSE i \in 1..26 : UpperAlpha[i] = c]
                ELSE c

\* String.prototype.toLowerCase
toLowerCase(s) == [i \in 1..Len(s) |-> LowerChar(s[i])]

\* Map.prototype.set on a map modelled as a function
MapSet(m, k, v) == [x \in (DOMAIN m) \cup {k} |-> IF x = k THEN v ELSE m[x]]
\* Map.prototype.delete
MapDelete(m, k) == [x \in (DOMAIN m) \ {k} |-> m[x]]
EmptyMap == [x \in {} |-> 0]

-----------------------------------------------------------------------------
(* Message model: NostrEvent = {id, pubkey, created_at, kind, tags, content} *)
(* A tag is a sequence of strings; tag[0] of the code is tag[1] here.        *)

(* A missing tag element reads as the empty string: the code only tests tag        *)
(* elements for truthiness or compares them with literals, where undefined and '' *)
(* behave alike.                                                                  *)
TagAt(tag, i) == IF Len(tag) >= i + 1 THEN tag[i + 1] ELSE <<>>
\* truthiness of a string
Truthy(v) == v # <<>>

T == <<"t">>
R == <<"r">>
P == <<"p">>
Bitcoin == <<"b","i","t","c","o","i","n">>
BitcoinCap == <<"B","i","t","c","o","i","n">>
NostrTag == <<"n","o","s","t","r">>

WssDamus == <<"w","s","s",":","/","/","r","e","l","a","y",".","d","a","m","u","s",".","i","o">>
WssNosLol == <<"w","s","s",":","/","/","n","o","s",".","l","o","l">>
WssNostrMom == <<"w","s","s",":","/","/","n","o","s","t","r",".","m","o","m">>

\* the relays the service starts with (two of the six the code lists)
defaultRelays == <<WssDamus, WssNosLol>>

Alice == <<"a","l","i","c","e">>
Bob == <<"b","o","b">>
Carol == <<"c","a","r","o","l">>

\* content: the text, and what JSON.parse makes of it
NotJson == [ok |-> FALSE, object |-> FALSE, entries |-> <<>>]
NoContent == [text |-> <<>>, json |-> NotJson]

\* the notes and profiles the monitored relays deliver
ServiceEvents ==
    { [id |-> 1, pubkey |-> Alice, created_at |-> 1800, kind |-> 1,
       tags |-> << <<T, Bitcoin>>, <<T, NostrTag>> >>, content |-> NoContent],
      [id |-> 2, pubkey |-> Bob, created_at |-> 600, kind |-> 1,
       tags |-> << <<T, BitcoinCap>>, <<T, Bitcoin>>, <<T>> >>, content |-> NoContent],
      [id |-> 3, pubkey |-> Carol, created_at |-> 2400, kind |-> 0,
       tags |-> << <<T, NostrTag>>, <<P, Alice>> >>, content |-> NoContent] }

-----------------------------------------------------------------------------
(* NostrService: the Topic Index *)

MaxHashtagEvents == 100

\* variant: the tags are taken as they are spelled
HashtagsAsSpelled(event) ==
    Bind(SelectSeq(event.tags, LAMBDA tag : TagAt(tag, 0) = T /\ Truthy(TagAt(tag, 1))),
         LAMBDA ttags : [i \in 1..Len(ttags) |-> TagAt(ttags[i], 1)])

\* event.tags.filter(tag => tag[0] === 't' && tag[1]).map(tag => tag[1].toLowerCase())
Hashtags(event) ==
    LET ttags == SelectSeq(event.tags, LAMBDA tag : TagAt(tag, 0) = T /\ Truthy(TagAt(tag, 1)))
    IN [i \in 1..Len(ttags) |-> toLowerCase(TagAt(ttags[i], 1))]

\* variant: the event goes to the end of the list
StoreAtEnd(hev, hashtag, event) ==
    Bind(IF hashtag \in DOMAIN hev THEN hev[hashtag] ELSE <<>>, LAMBDA events0 :
         MapSet(hev, hashtag,
                Take(IF \E i \in DOMAIN events0 : events0[i].id = event.id
                     THEN events0 ELSE Append(events0, event),
                     MaxHashtagEvents)))

\* variant: the event is stored whether or not its id is listed
StoreWithoutDedup(hev, hashtag, event) ==
    MapSet(hev, hashtag,
           Take(<<event>> \o (IF hashtag \in DOMAIN hev THEN hev[hashtag] ELSE <<>>),
                MaxHashtagEvents))

\* variant: the list over the cap loses its front instead of its tail
StoreEvictNewest(hev, hashtag, event) ==
    Bind(IF hashtag \in DOMAIN hev THEN hev[hashtag] ELSE <<>>, LAMBDA events0 :
    Bind(IF \E i \in DOMAIN events0 : events0[i].id = event.id
         THEN events0 ELSE <<event>> \o events0, LAMBDA events1 :
         MapSet(hev, hashtag,
                IF Len(events1) > MaxHashtagEvents
                THEN SubSeq(events1, 2, Len(events1)) ELSE events1)))

\* the body of trackHashtagEvents' forEach, for one hashtag
StoreHashtagEvent(hev, hashtag, event) ==
    LET events0 == IF hashtag \in DOMAIN hev THEN hev[hashtag] ELSE <<>>
        events1 == IF \E i \in DOMAIN events0 : events0[i].id = event.id
                   THEN events0
                   ELSE <<event>> \o events0
        events2 == IF Len(events1) > MaxHashtagEvents
                   THEN SubSeq(events1, 1, MaxHashtagEvents)
                   ELSE events1
    IN MapSet(hev, hashtag, events2)

RECURSIVE TrackAll(_, _, _)
\* hashtags.forEach of trackHashtagEvents
TrackAll(hev, hashtags, event) ==
    IF hashtags = <<>> THEN hev
    ELSE Bind(StoreHashtagEvent(hev, Head(hashtags), event),
              LAMBDA stored : TrackAll(stored, Tail(hashtags), event))

trackHashtagEvents(hev, event) ==
    Bind(Hashtags(event), LAMBDA hashtags : TrackAll(hev, hashtags, event))

\* relayDist.set(relayUrl, (relayDist.get(relayUrl) || 0) + 1) on a Map kept
\* as a sequence of {relay, count} in insertion order
BumpRelay(relayDist, relayUrl) ==
    IF \E i \in DOMAIN relayDist : relayDist[i].relay = relayUrl
    THEN [i \in DOMAIN relayDist |->
            IF relayDist[i].relay = relayUrl
            THEN [relay |-> relayUrl, count |-> relayDist[i].count + 1]
            ELSE relayDist[i]]
    ELSE Append(relayDist, [relay |-> relayUrl, count |-> 1])

\* variant: the relay is noted for the hashtag, its deliveries are not counted up
CountDeliveryOnce(dist, hashtag, relayUrl) ==
    MapSet(dist, hashtag,
           IF hashtag \in DOMAIN dist
              /\ \E i \in DOMAIN dist[hashtag] : dist[hashtag][i].relay = relayUrl
           THEN dist[hashtag]
           ELSE BumpRelay(IF hashtag \in DOMAIN dist THEN dist[hashtag] ELSE <<>>, relayUrl))

\* the body of trackHashtagRelayDistribution's forEach, for one hashtag
CountDelivery(dist, hashtag, relayUrl) ==
    MapSet(dist, hashtag,
           BumpRelay(IF hashtag \in DOMAIN dist THEN dist[hashtag] ELSE <<>>, relayUrl))

RECURSIVE DistributeAll(_, _, _)
\* hashtags.forEach of trackHashtagRelayDistribution
DistributeAll(dist, hashtags, relayUrl) ==
    IF hashtags = <<>> THEN dist
    ELSE Bind(CountDelivery(dist, Head(hashtags), relayUrl),
              LAMBDA counted : DistributeAll(counted, Tail(hashtags), relayUrl))

trackHashtagRelayDistribution(dist, event, relayUrl) ==
    Bind(Hashtags(event), LAMBDA hashtags : DistributeAll(dist, hashtags, relayUrl))

getHashtagEvents(hashtag) ==
    IF toLowerCase(hashtag) \in DOMAIN hashtagEvents
    THEN hashtagEvents[toLowerCase(hashtag)] ELSE <<>>

getHashtagRelayDistribution(hashtag) ==
    IF toLowerCase(hashtag) \in DOMAIN hashtagRelayDistribution
    THEN hashtagRelayDistribution[toLowerCase(hashtag)] ELSE <<>>

-----------------------------------------------------------------------------
(* NostrService: relay statuses, subscriptions, dispatch *)

\* RelayStatus; lastActivity is <<>> while unset, <<t>> once set
NewStatus(url) == [url |-> url, connected |-> FALSE, eventsReceived |-> 0,
                   lastActivity |-> <<>>, error |-> Undefined]

\* variant: a delivery marks the relay connected without counting the event
updateRelayStatusUncounted(statuses, relayUrl, connected, error) ==
    IF relayUrl \notin DOMAIN statuses THEN statuses
    ELSE [statuses EXCEPT ![relayUrl] =
            IF connected
            THEN [@ EXCEPT !.connected = TRUE, !.lastActivity = <<now>>,
                           !.error = Undefined]
            ELSE IF error # Undefined /\ error # ""
                 THEN [@ EXCEPT !.connected = FALSE, !.error = error]
                 ELSE [@ EXCEPT !.connected = FALSE]]

\* variant: a delivery leaves the stored error in place
updateRelayStatusKeepingError(statuses, relayUrl, connected, error) ==
    IF relayUrl \notin DOMAIN statuses THEN statuses
    ELSE [statuses EXCEPT ![relayUrl] =
            IF connected
            THEN [@ EXCEPT !.connected = TRUE, !.eventsReceived = @ + 1,
                           !.lastActivity = <<now>>]
            ELSE IF error # Undefined /\ error # ""
                 THEN [@ EXCEPT !.connected = FALSE, !.error = error]
                 ELSE [@ EXCEPT !.connected = FALSE]]

\* updateRelayStatus: the statuses afterwards
updateRelayStatus(statuses, relayUrl, connected, error) ==
    IF relayUrl \notin DOMAIN statuses THEN statuses
    ELSE LET status == statuses[relayUrl]
             s1 == [status EXCEPT !.connected = connected]
             s2 == IF connected
                   THEN [s1 EXCEPT !.eventsReceived = @ + 1,
                                   !.lastActivity = <<now>>,
                                   !.error = Undefined]
                   ELSE IF error # Undefined /\ error # ""
                        THEN [s1 EXCEPT !.error = error]
                        ELSE s1
         IN [statuses EXCEPT ![relayUrl] = s2]

\* relayStatuses$.next(new Map(this.relayStatuses)) happens only for a known relay
PublishedAfterUpdate(statuses, relayUrl) ==
    IF relayUrl \in DOMAIN relayStatuses THEN statuses ELSE relayStatusesPub

\* updateEventCounts
updateEventCounts(counts, event) ==
    MapSet(counts, event.kind,
           (IF event.kind \in DOMAIN counts THEN counts[event.kind] ELSE 0) + 1)

\* totalEvents$: Object.values(eventCounts).reduce(sum)
totalEvents == SetSum(eventCounts, DOMAIN eventCounts)

SubscriptionCount(url) == IF url \in DOMAIN subscriptions THEN subscriptions[url] ELSE 0

\* history of the calls: one trackHashtagRelayDistribution call per referenced topic
NoteDeliveryCalls(calls, event, relayUrl) ==
    LET touched == {<<h, relayUrl>> : h \in Range(Hashtags(event))}
    IN [k \in (DOMAIN calls) \cup touched |->
            (IF k \in DOMAIN calls THEN calls[k] ELSE 0) + (IF k \in touched THEN 1 ELSE 0)]

\* history of the arrivals: per topic, the distinct ids in order of first arrival
NoteArrivals(rec, event) ==
    [h \in (DOMAIN rec) \cup Range(Hashtags(event)) |->
        LET old == IF h \in DOMAIN rec THEN rec[h] ELSE <<>>
        IN IF h \in Range(Hashtags(event)) /\ event.id \notin Range(old)
           THEN Append(old, event.id) ELSE old]

(* One event delivered by one live subscription of relayUrl: the tap       *)
(* (handleEvent) runs first, then the subscriber's next.                   *)
Deliver(relayUrl, event) ==
    /\ SubscriptionCount(relayUrl) > 0
    \* handleEvent
    /\ relayStatuses' = updateRelayStatus(relayStatuses, relayUrl, TRUE, Undefined)
    /\ relayStatusesPub' = PublishedAfterUpdate(relayStatuses', relayUrl)
    /\ hashtagRelayDistribution' =
           trackHashtagRelayDistribution(hashtagRelayDistribution, event, relayUrl)
    /\ relayListRequests' = IF event.kind = 0
                            THEN relayListRequests \cup {event.pubkey}
                            ELSE relayListRequests
    \* subscriber
    /\ eventCounts' = updateEventCounts(eventCounts, event)
    /\ hashtagEvents' = trackHashtagEvents(hashtagEvents, event)
    /\ deliveryCalls' = NoteDeliveryCalls(deliveryCalls, event, relayUrl)
    /\ recorded' = NoteArrivals(recorded, event)
    /\ UNCHANGED <<subscriptions, timerVars, readerVars,
                   subscriptionRequests, discoveryVars>>

\* variant: the error ends the merged stream, and with it every subscription
SubscriptionErrorEndsAll(relayUrl, message) ==
    /\ SubscriptionCount(relayUrl) > 0
    /\ relayStatuses' = updateRelayStatus(relayStatuses, relayUrl, FALSE, message)
    /\ relayStatusesPub' = PublishedAfterUpdate(relayStatuses', relayUrl)
    /\ subscriptions' = [u \in DOMAIN subscriptions |-> 0]
    /\ UNCHANGED <<eventCounts, hashtagEvents, hashtagRelayDistribution,
                   relayListRequests, deliveryCalls, recorded, timerVars, readerVars,
                   subscriptionRequests, discoveryVars>>

\* catchError of one live subscription: the status is updated, the stream ends
SubscriptionError(relayUrl, message) ==
    /\ SubscriptionCount(relayUrl) > 0
    /\ relayStatuses' = updateRelayStatus(relayStatuses, relayUrl, FALSE, message)
    /\ relayStatusesPub' = PublishedAfterUpdate(relayStatuses', relayUrl)
    /\ subscriptions' = [subscriptions EXCEPT ![relayUrl] = @ - 1]
    /\ UNCHANGED <<eventCounts, hashtagEvents, hashtagRelayDistribution,
                   relayListRequests, deliveryCalls, recorded, timerVars, readerVars,
                   subscriptionRequests, discoveryVars>>

\* Date.now() when the module is loaded, in ms: the service is constructed right away
ModuleLoadTime == 3600000

\* const since = Math.floor((Date.now() / 1000) - 1800), evaluated once at module load
since == (ModuleLoadTime \div 1000) - 1800

\* the filter of a subscription opened now: {kinds: [...], since: since}
SubscriptionRequest == [since |-> since, at |-> now]

\* newRelays.forEach(url => this.connectToRelay(url)): the requests made
RequestAll(requests, urls) ==
    [u \in (DOMAIN requests) \cup Range(urls) |->
        IF u \in Range(urls) THEN SubscriptionRequest ELSE requests[u]]

\* variant: the status is registered anew on every call
ConnectedStatusesAnew(statuses, relayUrl) ==
    MapSet(statuses, relayUrl, NewStatus(relayUrl))

\* connectToRelay: state after the call
ConnectedStatuses(statuses, relayUrl) ==
    IF relayUrl \in DOMAIN statuses THEN statuses
    ELSE MapSet(statuses, relayUrl, NewStatus(relayUrl))

ConnectedSubscriptions(subs, relayUrl) ==
    MapSet(subs, relayUrl, (IF relayUrl \in DOMAIN subs THEN subs[relayUrl] ELSE 0) + 1)

connectToRelay(relayUrl) ==
    /\ relayStatuses' = ConnectedStatuses(relayStatuses, relayUrl)
    /\ subscriptions' = ConnectedSubscriptions(subscriptions, relayUrl)
    /\ subscriptionRequests' = MapSet(subscriptionRequests, relayUrl, SubscriptionRequest)
    /\ UNCHANGED <<relayStatusesPub, eventCounts, hashtagEvents, hashtagRelayDistribution,
                   relayListRequests, deliveryCalls, recorded, timerVars, readerVars, discoveryVars>>

\* variant: the status entry goes, the relay's subscriptions stay open
removeRelayStatusOnly(url) ==
    /\ relayStatuses' = MapDelete(relayStatuses, url)
    /\ relayStatusesPub' = relayStatuses'
    /\ UNCHANGED <<subscriptions, eventCounts, hashtagEvents, hashtagRelayDistribution,
                   relayListRequests, deliveryCalls, recorded, timerVars, readerVars,
                   subscriptionRequests, discoveryVars>>

\* removeRelay: pool.remove(url) closes the relay and with it its subscriptions
removeRelay(url) ==
    /\ subscriptions' = MapDelete(subscriptions, url)
    /\ relayStatuses' = MapDelete(relayStatuses, url)
    /\ relayStatusesPub' = relayStatuses'
    /\ subscriptionRequests' = MapDelete(subscriptionRequests, url)
    /\ UNCHANGED <<eventCounts, hashtagEvents, hashtagRelayDistribution,
                   relayListRequests, deliveryCalls, recorded, timerVars, readerVars, discoveryVars>>

RECURSIVE ConnectAll(_, _, _)
\* newRelays.forEach(url => this.connectToRelay(url)) on <<statuses, subscriptions>>
ConnectAll(statuses, subs, urls) ==
    IF urls = <<>> THEN <<statuses, subs>>
    ELSE Bind(<<ConnectedStatuses(statuses, Head(urls)),
                ConnectedSubscriptions(subs, Head(urls))>>,
              LAMBDA c : ConnectAll(c[1], c[2], Tail(urls)))

\* processRelayListEvent, run on the relay list the address loader returned
processRelayListEvent(event) ==
    LET relayTags == SelectSeq(event.tags, LAMBDA tag : TagAt(tag, 0) = R /\ Truthy(TagAt(tag, 1)))
        urls == [i \in 1..Len(relayTags) |-> TagAt(relayTags[i], 1)]
        newRelays == SelectSeq(urls, LAMBDA url : url \notin DOMAIN relayStatuses)
    IN /\ event.pubkey \in relayListRequests
       /\ \E after \in {ConnectAll(relayStatuses, subscriptions, newRelays)} :
             /\ relayStatuses' = after[1]
             /\ subscriptions' = after[2]
       /\ subscriptionRequests' = RequestAll(subscriptionRequests, newRelays)
       /\ UNCHANGED <<relayStatusesPub, eventCounts, hashtagEvents, hashtagRelayDistribution,
                      relayListRequests, deliveryCalls, recorded, timerVars, readerVars, discoveryVars>>

------------------------------------------------------------------------\* nobody has read yet
NoReader == [made |-> FALSE, hashtag |-> <<>>, returned |-> <<>>, shared |-> FALSE]

(* A caller calls getHashtagEvents(hashtag) and keeps the result.  The method *)
(* returns this.hashtagEvents.get(...) itself when the topic has a list, so   *)
(* the caller then shares the list with the service; otherwise it returns a   *)
(* new empty array.  returned is the value the caller was given.              *)
readHashtagEvents(hashtag) ==
    /\ reader' = [made |-> TRUE, hashtag |-> toLowerCase(hashtag),
                  returned |-> getHashtagEvents(hashtag),
                  shared |-> toLowerCase(hashtag) \in DOMAIN hashtagEvents]
    /\ UNCHANGED <<relayStatuses, relayStatusesPub, subscriptions, eventCounts,
                   hashtagEvents, hashtagRelayDistribution, relayListRequests,
                   deliveryCalls, recorded, timerVars,
                   subscriptionRequests, discoveryVars>>

\* what the caller finds in the array it holds: the topic's list is never replaced,
\* only changed in place (unshift, splice)
ReaderSees ==
    IF reader.shared THEN hashtagEvents[reader.hashtag] ELSE reader.returned

(* startCleanupTimer: timer(0, 10 * 60 * 1000).pipe(takeUntil(stopCleanup$), ...). *)
(* takeUntil subscribes to its notifier before it subscribes to the timer, and  *)
(* completes on the notifier's first value.  notifierEmits: the notifier has a  *)
(* value to give at subscription, as a BehaviorSubject always has.              *)
startCleanupTimer(notifierEmits) == IF notifierEmits THEN "completed" ELSE "running"

\* the period of the timer, in ms
SweepInterval == 600000

\* a BehaviorSubject replays its current value to every new subscriber
BehaviorSubjectEmitsOnSubscribe == TRUE

\* disconnect: stopCleanup$.next(true), which ends the timer pipeline and nothing else
disconnect ==
    /\ stopCleanup' = TRUE
    /\ cleanupTimer' = "completed"
    /\ UNCHANGED <<relayStatuses, relayStatusesPub, subscriptions, eventCounts,
                   hashtagEvents, hashtagRelayDistribution, relayListRequests,
                   deliveryCalls, recorded, readerVars,
                   subscriptionRequests, discoveryVars>>

-----
(* URLs: new URL(s) for the strings of the model.  The strings carry no    *)
(* userinfo, query, fragment, blanks, percent escapes or dot segments, and *)
(* a host ending in a number is a dotted quad already, so the parser's     *)
(* handling of those is not modelled.                                      *)

\* String.prototype.indexOf + 1: the first position of c in s, 0 if there is none
IndexOf(s, c) ==
    Bind({i \in DOMAIN s : s[i] = c},
         LAMBDA at : IF at = {} THEN 0 ELSE CHOOSE i \in at : \A j \in at : i <= j)

Ws == <<"w","s">>
Wss == <<"w","s","s">>
SpecialSchemes == {Ws, Wss, <<"h","t","t","p">>, <<"h","t","t","p","s">>, <<"f","t","p">>}
DefaultPort(scheme) == IF scheme = Ws THEN <<"8","0">>
                       ELSE IF scheme = Wss THEN <<"4","4","3">>
                       ELSE <<>>

\* s from its first character outside C on
SkipWhile(s, C) ==
    Bind({i \in DOMAIN s : s[i] \notin C},
         LAMBDA at : IF at = {} THEN <<>>
                     ELSE SubSeq(s, CHOOSE i \in at : \A j \in at : i <= j, Len(s)))

IsHostChar(c) == IsAlpha(c) \/ IsDigit(c) \/ c \in {".", "-"}

BadUrl == [ok |-> FALSE, protocol |-> <<>>, hostname |-> <<>>, href |-> <<>>]

\* the scheme of s ends before position colon
SchemeOk(s, colon) ==
    /\ colon > 1
    /\ IsAlpha(s[1])
    /\ \A i \in 2..(colon - 1) : IsAlpha(s[i]) \/ IsDigit(s[i]) \/ s[i] \in {"+", "-", "."}

\* the port as serialized: no leading zeros, dropped when it is the scheme's default
SerializedPort(scheme, portRaw) ==
    Bind(SkipWhile(portRaw, {"0"}),
         LAMBDA digits :
            IF portRaw = <<>> THEN <<>>
            ELSE IF digits = <<>> THEN <<"0">>
            ELSE IF digits = DefaultPort(scheme) THEN <<>>
            ELSE digits)

\* a special-scheme URL from its scheme, host[:port] and path
SpecialUrl(scheme, hostport, path) ==
    Bind(IndexOf(hostport, ":"), LAMBDA pcolon :
    Bind(IF pcolon = 0 THEN hostport ELSE SubSeq(hostport, 1, pcolon - 1), LAMBDA host :
    Bind(IF pcolon = 0 THEN <<>> ELSE SubSeq(hostport, pcolon + 1, Len(hostport)), LAMBDA portRaw :
        IF \/ host = <<>>
           \/ \E i \in DOMAIN host : ~IsHostChar(host[i])
           \/ \E i \in DOMAIN portRaw : ~IsDigit(portRaw[i])
        THEN BadUrl
        ELSE Bind(<<toLowerCase(host), SerializedPort(scheme, portRaw)>>, LAMBDA hp :
                [ok |-> TRUE, protocol |-> scheme, hostname |-> hp[1],
                 href |-> scheme \o <<":","/","/">> \o hp[1]
                          \o (IF hp[2] = <<>> THEN <<>> ELSE <<":">> \o hp[2]) \o path]))))

\* new URL(s): ok = FALSE where the constructor throws
ParseURL(s) ==
    Bind(IndexOf(s, ":"), LAMBDA colon :
        IF ~SchemeOk(s, colon) THEN BadUrl
        ELSE Bind(toLowerCase(SubSeq(s, 1, colon - 1)), LAMBDA scheme :
             IF scheme \notin SpecialSchemes
             THEN [ok |-> TRUE, protocol |-> scheme, hostname |-> <<>>,
                   href |-> scheme \o <<":">> \o SubSeq(s, colon + 1, Len(s))]
             ELSE Bind(SkipWhile(SubSeq(s, colon + 1, Len(s)), {"/", "\\"}), LAMBDA auth :
                  Bind(IndexOf(auth, "/"), LAMBDA slash :
                      SpecialUrl(scheme,
                                 IF slash = 0 THEN auth ELSE SubSeq(auth, 1, slash - 1),
                                 IF slash = 0 THEN <<"/">> ELSE SubSeq(auth, slash, Len(auth)))))))

\* isValidRelayUrl (helpers)
isValidRelayUrl(url) ==
    Bind(ParseURL(url), LAMBDA parsed : parsed.ok /\ parsed.protocol \in {Ws, Wss})

\* normalizeRelayUrl (helpers): parsed.toString().replace(/\/$/, '')
normalizeRelayUrl(url) ==
    Bind(ParseURL(url), LAMBDA parsed :
        IF ~parsed.ok THEN url
        ELSE IF parsed.href[Len(parsed.href)] = "/"
             THEN SubSeq(parsed.href, 1, Len(parsed.href) - 1)
             ELSE parsed.href)

-----------------------------------------------------------------------------
(* relayDiscovery.ts: parsers *)

Read == <<"r","e","a","d">>
Write == <<"w","r","i","t","e">>

\* variant: the marker is not looked at
parseNip65IgnoringMarker(event) ==
    IF event.kind # 10002 THEN <<>>
    ELSE Bind(SelectSeq(event.tags,
                        LAMBDA tag : /\ TagAt(tag, 0) = R
                                     /\ Truthy(TagAt(tag, 1))
                                     /\ isValidRelayUrl(TagAt(tag, 1))),
              LAMBDA rtags :
                [i \in 1..Len(rtags) |->
                    [url |-> normalizeRelayUrl(TagAt(rtags[i], 1)),
                     read |-> TRUE,
                     write |-> TRUE,
                     source |-> "nip65",
                     pubkey |-> event.pubkey,
                     timestamp |-> event.created_at]])

\* parseNip65RelayList: the RelayListEntry sequence of an event
parseNip65RelayList(event) ==
    IF event.kind # 10002 THEN <<>>
    ELSE Bind(SelectSeq(event.tags,
                        LAMBDA tag : /\ TagAt(tag, 0) = R
                                     /\ Truthy(TagAt(tag, 1))
                                     /\ isValidRelayUrl(TagAt(tag, 1))),
              LAMBDA rtags :
                [i \in 1..Len(rtags) |->
                    [url |-> normalizeRelayUrl(TagAt(rtags[i], 1)),
                     read |-> TagAt(rtags[i], 2) # Write,
                     write |-> TagAt(rtags[i], 2) # Read,
                     source |-> "nip65",
                     pubkey |-> event.pubkey,
                     timestamp |-> event.created_at]])

IsSpace(c) == c \in {" ", "\t", "\n"}
IsBech(c) == IsLower(c) \/ IsDigit(c)
IsNonSpace(c) == ~IsSpace(c)

Nprofile1 == <<"n","p","r","o","f","i","l","e","1">>
Nevent1 == <<"n","e","v","e","n","t","1">>
Naddr1 == <<"n","a","d","d","r","1">>
EntityPrefixes == <<Nprofile1, Nevent1, Naddr1>>

StartsWithAt(s, p, pre) == p + Len(pre) - 1 <= Len(s) /\ SubSeq(s, p, p + Len(pre) - 1) = pre

\* the last index q >= p - 1 such that Test holds of every character of s[p..q]
RunEnd(s, p, Test(_)) ==
    Bind({i \in p..Len(s) : ~Test(s[i])},
         LAMBDA fails : IF fails = {} THEN Len(s)
                        ELSE (CHOOSE i \in fails : \A j \in fails : i <= j) - 1)

\* /n(profile|event|addr)1[a-z0-9]+/ at position p: the index of the match's last
\* character, 0 when there is no match at p
MatchEntityAt(s, p) ==
    Bind({k \in DOMAIN EntityPrefixes : StartsWithAt(s, p, EntityPrefixes[k])}, LAMBDA fits :
        IF fits = {} THEN 0
        ELSE Bind(p + Len(EntityPrefixes[CHOOSE k \in fits : \A j \in fits : k <= j]),
                  LAMBDA from : Bind(RunEnd(s, from, IsBech),
                                     LAMBDA to : IF to >= from THEN to ELSE 0)))

\* the rest of the URL regex once the host ends at hostEnd: (?::[0-9]+)?(?:\/[^\s]*)?
UrlTailEnd(s, hostEnd) ==
    Bind(IF /\ hostEnd + 2 <= Len(s)
            /\ s[hostEnd + 1] = ":"
            /\ IsDigit(s[hostEnd + 2])
         THEN RunEnd(s, hostEnd + 2, IsDigit)
         ELSE hostEnd,
         LAMBDA portEnd :
            IF portEnd + 1 <= Len(s) /\ s[portEnd + 1] = "/"
            THEN RunEnd(s, portEnd + 2, IsNonSpace)
            ELSE portEnd)

\* /wss?:\/\/[a-zA-Z0-9.-]+(?::[0-9]+)?(?:\/[^\s]*)?/ at position p, likewise
MatchUrlAt(s, p) ==
    Bind(IF StartsWithAt(s, p, Wss \o <<":","/","/">>) THEN p + 6
         ELSE IF StartsWithAt(s, p, Ws \o <<":","/","/">>) THEN p + 5
         ELSE 0,
         LAMBDA hostStart :
            IF hostStart = 0 THEN 0
            ELSE Bind(RunEnd(s, hostStart, IsHostChar),
                      LAMBDA hostEnd : IF hostEnd < hostStart THEN 0
                                       ELSE UrlTailEnd(s, hostEnd)))

RECURSIVE Matches(_, _, _)
(* The matches of a global regex in s from position p on, ends[q] being the  *)
(* end of the match that starts at q (0: none): leftmost first, the search   *)
(* resuming behind each match.                                               *)
Matches(s, ends, p) ==
    IF p > Len(s) THEN <<>>
    ELSE IF ends[p] = 0 THEN Matches(s, ends, p + 1)
    ELSE <<SubSeq(s, p, ends[p])>> \o Matches(s, ends, ends[p] + 1)

\* content.match(/n(profile|event|addr)1[a-z0-9]+/g)
MatchAllEntities(s) ==
    Bind([p \in 1..Len(s) |-> MatchEntityAt(s, p)], LAMBDA ends : Matches(s, ends, 1))

\* bech32String.match(/wss?:\/\/.../g)
MatchAllUrls(s) ==
    Bind([p \in 1..Len(s) |-> MatchUrlAt(s, p)], LAMBDA ends : Matches(s, ends, 1))

\* url.replace(/[.,;:!?)]$/, '')
StripPunctuation(url) ==
    IF url # <<>> /\ url[Len(url)] \in {".", ",", ";", ":", "!", "?", ")"}
    THEN SubSeq(url, 1, Len(url) - 1) ELSE url

\* parseNip19RelayHints
parseNip19RelayHints(bech32String) ==
    IF ~StartsWith(bech32String, <<"n">>) THEN <<>>
    ELSE Bind(MatchAllUrls(bech32String), LAMBDA urlMatches :
         Bind(SelectSeq([i \in 1..Len(urlMatches) |-> StripPunctuation(urlMatches[i])],
                        isValidRelayUrl),
              LAMBDA valid : [i \in 1..Len(valid) |-> normalizeRelayUrl(valid[i])]))

RECURSIVE Concat(_)
Concat(ss) == IF ss = <<>> THEN <<>> ELSE Head(ss) \o Concat(Tail(ss))

\* Array.from(new Set(xs)): the first occurrences, in order
Distinct(xs) == SelectSeqIdx(xs, LAMBDA i : \A j \in 1..(i - 1) : xs[j] # xs[i])

\* extractNip19RelayHints
extractNip19RelayHints(content) ==
    Bind(MatchAllEntities(content), LAMBDA nip19Matches :
    Bind(Concat([i \in 1..Len(nip19Matches) |-> parseNip19RelayHints(nip19Matches[i])]),
         LAMBDA hints : Distinct(hints)))

-----------------------------------------------------------------------------
(* StandardRelayDiscovery: the recommendation table *)
(* relayRecommendations is a Map; it is kept as the sequence of its entries *)
(* {url, readRecommendations, writeRecommendations, lastSeen, sources} in   *)
(* insertion order.                                                         *)

Keys(table) == {table[i].url : i \in DOMAIN table}

\* this.relayRecommendations.get(url) || {empty entry}
GetOrNew(table, url) ==
    IF url \in Keys(table)
    THEN table[CHOOSE i \in DOMAIN table : table[i].url = url]
    ELSE [url |-> url, readRecommendations |-> {}, writeRecommendations |-> {},
          lastSeen |-> 0, sources |-> <<>>]

\* this.relayRecommendations.set(url, data)
TableSet(table, data) ==
    IF data.url \in Keys(table)
    THEN [i \in DOMAIN table |-> IF table[i].url = data.url THEN data ELSE table[i]]
    ELSE Append(table, data)

\* if (!existing.sources.includes(source)) existing.sources.push(source)
AddSource(sources, source) ==
    IF source \in Range(sources) THEN sources ELSE Append(sources, source)

TotalRecs(data) == Cardinality(data.readRecommendations) + Cardinality(data.writeRecommendations)

\* variant: no prefix rule
isBlacklistedWithoutPrefix(cfg, relayUrl) ==
    Bind(ParseURL(relayUrl), LAMBDA url :
        IF ~url.ok THEN TRUE
        ELSE \E domain \in Range(cfg.blacklistedDomains) :
                \/ url.hostname = domain
                \/ EndsWith(url.hostname, <<".">> \o domain))

\* isBlacklisted
isBlacklisted(cfg, relayUrl) ==
    Bind(ParseURL(relayUrl), LAMBDA url :
        IF ~url.ok THEN TRUE
        ELSE \E domain \in Range(cfg.blacklistedDomains) :
                \/ url.hostname = domain
                \/ EndsWith(url.hostname, <<".">> \o domain)
                \/ StartsWith(url.hostname, domain))

\* isPreferredDomain
isPreferredDomain(cfg, relayUrl) ==
    Bind(ParseURL(relayUrl), LAMBDA url :
        IF ~url.ok THEN FALSE
        ELSE \E domain \in Range(cfg.preferredDomains) :
                url.hostname = domain \/ EndsWith(url.hostname, <<".">> \o domain))

\* variant: one endorsement is enough
MeetsThresholdOfOne(cfg, data) == TotalRecs(data) >= 1

\* the threshold test the three processors and the ranking share
MeetsThreshold(cfg, data) == TotalRecs(data) >= cfg.minFolloweeRecommendations

\* variant: lastSeen is the time of the event processed last
EndorseLatest(cfg, acc, url, pubkey, read, write, timestamp, source) ==
    Bind([GetOrNew(acc.table, url) EXCEPT
                !.readRecommendations = IF read THEN @ \cup {pubkey} ELSE @,
                !.writeRecommendations = IF write THEN @ \cup {pubkey} ELSE @,
                !.lastSeen = timestamp * 1000,
                !.sources = AddSource(@, source)],
         LAMBDA data :
            [table |-> TableSet(acc.table, data),
             newRelays |-> IF MeetsThreshold(cfg, data)
                           THEN Append(acc.newRelays, url) ELSE acc.newRelays])

(* One endorsement stored: the body the three processors share once the URL  *)
(* passed their checks.  acc = [table, newRelays].                           *)
Endorse(cfg, acc, url, pubkey, read, write, timestamp, source) ==
    Bind([GetOrNew(acc.table, url) EXCEPT
                !.readRecommendations = IF read THEN @ \cup {pubkey} ELSE @,
                !.writeRecommendations = IF write THEN @ \cup {pubkey} ELSE @,
                !.lastSeen = Max(@, timestamp * 1000),
                !.sources = AddSource(@, source)],
         LAMBDA data :
            [table |-> TableSet(acc.table, data),
             newRelays |-> IF MeetsThreshold(cfg, data)
                           THEN Append(acc.newRelays, url) ELSE acc.newRelays])

RECURSIVE Nip65Fold(_, _, _)
\* relayEntries.forEach of processNip65Event
Nip65Fold(cfg, acc, relayEntries) ==
    IF relayEntries = <<>> THEN acc
    ELSE Bind(Head(relayEntries), LAMBDA entry :
         Bind(IF isBlacklisted(cfg, entry.url) THEN acc
              ELSE Endorse(cfg, acc, entry.url, entry.pubkey, entry.read, entry.write,
                           entry.timestamp, "nip65"),
              LAMBDA next : Nip65Fold(cfg, next, Tail(relayEntries))))

\* variant: every event is read as an announcement, whatever the configuration
Nip65ResultUnguarded(cfg, table, event) ==
    Bind(parseNip65RelayList(event),
         LAMBDA relayEntries :
            Nip65Fold(cfg, [table |-> table, newRelays |-> <<>>], relayEntries))

\* processNip65Event: [table, newRelays] after the call
Nip65Result(cfg, table, event) ==
    IF ~cfg.nip65Enabled \/ event.kind # 10002
    THEN [table |-> table, newRelays |-> <<>>]
    ELSE Bind(parseNip65RelayList(event),
              LAMBDA relayEntries :
                 Nip65Fold(cfg, [table |-> table, newRelays |-> <<>>], relayEntries))

RECURSIVE Nip19Fold(_, _, _, _)
\* hints.forEach of processNip19Hints
Nip19Fold(cfg, acc, hints, event) ==
    IF hints = <<>> THEN acc
    ELSE Bind(IF isBlacklisted(cfg, Head(hints)) THEN acc
              ELSE Endorse(cfg, acc, Head(hints), event.pubkey, TRUE, FALSE,
                           event.created_at, "nip19"),
              LAMBDA next : Nip19Fold(cfg, next, Tail(hints), event))

\* processNip19Hints: [table, newRelays] after the call
Nip19Result(cfg, table, event) ==
    IF ~cfg.nip19Enabled
    THEN [table |-> table, newRelays |-> <<>>]
    ELSE Bind(extractNip19RelayHints(event.content.text),
              LAMBDA hints : Nip19Fold(cfg, [table |-> table, newRelays |-> <<>>], hints, event))

(* JSON.parse(event.content) is event.content.json: [ok |-> FALSE] where it   *)
(* throws, else [ok |-> TRUE, object |-> is it a non-null object, entries |-> *)
(* Object.entries of it], an entry being [key, object, relay].               *)
RECURSIVE ContactFold(_, _, _, _)
\* Object.entries(content).forEach of processContactEvent
ContactFold(cfg, acc, entries, event) ==
    IF entries = <<>> THEN acc
    ELSE Bind(Head(entries), LAMBDA relayInfo :
         Bind(IF /\ relayInfo.object
                 /\ Truthy(relayInfo.relay)
                 /\ isValidRelayUrl(relayInfo.relay)
                 /\ ~isBlacklisted(cfg, relayInfo.relay)
              THEN Endorse(cfg, acc, normalizeRelayUrl(relayInfo.relay), event.pubkey,
                           TRUE, FALSE, event.created_at, "contacts")
              ELSE acc,
              LAMBDA next : ContactFold(cfg, next, Tail(entries), event)))

\* the pubkeys of the p tags of a contact event
FollowedIn(event) ==
    {TagAt(event.tags[i], 1) : i \in {j \in DOMAIN event.tags :
                                        /\ TagAt(event.tags[j], 0) = P
                                        /\ Truthy(TagAt(event.tags[j], 1))}}

\* processContactEvent: [table, newRelays] after the call
ContactResult(cfg, table, event) ==
    IF ~cfg.followContactRelays \/ event.kind # 3
    THEN [table |-> table, newRelays |-> <<>>]
    ELSE IF ~event.content.json.ok \/ ~event.content.json.object
    THEN [table |-> table, newRelays |-> <<>>]
    ELSE ContactFold(cfg, [table |-> table, newRelays |-> <<>>],
                     event.content.json.entries, event)

\* variant: the p tags are read only once the content parsed
ContactFollowedWhenParsed(cfg, followed, event) ==
    IF ~cfg.followContactRelays \/ event.kind # 3 THEN followed
    ELSE IF ~event.content.json.ok THEN followed
    ELSE followed \cup FollowedIn(event)

\* the followedPubkeys after processContactEvent
ContactFollowed(cfg, followed, event) ==
    IF ~cfg.followContactRelays \/ event.kind # 3 THEN followed
    ELSE followed \cup FollowedIn(event)

-----------------------------------------------------------------------------
(* StandardRelayDiscovery: ranking, cleanup, import *)

\* this.config.maxAgeHours * 60 * 60 * 1000
MaxAge(cfg) == cfg.maxAgeHours * 60 * 60 * 1000

\* variant: an entry exactly maxAge old is stale too
IsStaleInclusive(cfg, data, t) == t - data.lastSeen >= MaxAge(cfg)

\* now - data.lastSeen > maxAge
IsStale(cfg, data, t) == t - data.lastSeen > MaxAge(cfg)

\* variant: only the largest bonus counts
ScoreExclusive(cfg, data) ==
    TotalRecs(data)
    + (IF isPreferredDomain(cfg, data.url) THEN 10
       ELSE IF "nip65" \in Range(data.sources) THEN 5
       ELSE IF "nip19" \in Range(data.sources) THEN 2 ELSE 0)

\* the score of getRecommendedRelays' map step
Score(cfg, data) ==
    TotalRecs(data)
    + (IF isPreferredDomain(cfg, data.url) THEN 10 ELSE 0)
    + (IF "nip65" \in Range(data.sources) THEN 5 ELSE 0)
    + (IF "nip19" \in Range(data.sources) THEN 2 ELSE 0)

\* the object getRecommendedRelays' map step builds
Ranked(cfg, data) ==
    [url |-> data.url,
     readRecs |-> Cardinality(data.readRecommendations),
     writeRecs |-> Cardinality(data.writeRecommendations),
     totalRecs |-> TotalRecs(data),
     lastSeen |-> data.lastSeen,
     sources |-> data.sources,
     score |-> Score(cfg, data)]

\* variant: x goes in front of the elements it ties with
InsertBeforeTies(xs, x) ==
    Bind(Cardinality({i \in DOMAIN xs : xs[i].score > x.score}),
         LAMBDA k : SubSeq(xs, 1, k) \o <<x>> \o SubSeq(xs, k + 1, Len(xs)))

\* x inserted into the sorted xs behind every element it does not beat
InsertByScore(xs, x) ==
    Bind(Cardinality({i \in DOMAIN xs : xs[i].score >= x.score}),
         LAMBDA k : SubSeq(xs, 1, k) \o <<x>> \o SubSeq(xs, k + 1, Len(xs)))

RECURSIVE SortByScore(_)
\* .sort((a, b) => b.score - a.score), a stable sort
SortByScore(xs) ==
    IF xs = <<>> THEN <<>>
    ELSE Bind(SortByScore(SubSeq(xs, 1, Len(xs) - 1)),
              LAMBDA sorted : InsertByScore(sorted, xs[Len(xs)]))

\* the filter step of getRecommendedRelays: the entries it lets through
Qualifying(cfg, table, t) ==
    SelectSeq(table, LAMBDA data : ~IsStale(cfg, data, t) /\ MeetsThreshold(cfg, data))

\* what getRecommendedRelays returns at time t
RecommendedList(cfg, table, t) ==
    Bind(Qualifying(cfg, table, t), LAMBDA kept :
    Bind([i \in 1..Len(kept) |-> Ranked(cfg, kept[i])], LAMBDA mapped :
    Bind(SortByScore(mapped), LAMBDA sorted : Take(sorted, cfg.maxRelays))))

\* the table once the stale entries are deleted (getRecommendedRelays' filter, cleanup)
WithoutStale(cfg, table, t) == SelectSeq(table, LAMBDA data : ~IsStale(cfg, data, t))

(* Imported data: a field that may be missing is <<>> when missing and <<v>> *)
(* when present.                                                            *)
None == <<>>
Some(v) == <<v>>
IsSome(o) == o # <<>>
OrElse(o, d) == IF IsSome(o) THEN o[1] ELSE d

RECURSIVE ImportFold(_, _)
\* data.relayRecommendations.forEach of importData
ImportFold(acc, entries) ==
    IF entries = <<>> THEN acc
    ELSE Bind(Head(entries), LAMBDA entry :
         Bind(IF /\ Truthy(entry.url)
                 /\ IsSome(entry.readRecommendations)
                 /\ IsSome(entry.writeRecommendations)
              THEN TableSet(acc, [url |-> entry.url,
                                  readRecommendations |-> Range(entry.readRecommendations[1]),
                                  writeRecommendations |-> Range(entry.writeRecommendations[1]),
                                  lastSeen |-> OrElse(entry.lastSeen, 0),
                                  sources |-> OrElse(entry.sources, <<>>)])
              ELSE acc,
              LAMBDA next : ImportFold(next, Tail(entries))))

\* importData: the table afterwards
ImportedTable(table, data) ==
    IF IsSome(data.relayRecommendations)
    THEN ImportFold(<<>>, data.relayRecommendations[1])
    ELSE table

\* importData: the followed pubkeys afterwards
ImportedFollowed(followed, data) ==
    IF IsSome(data.followedPubkeys) THEN Range(data.followedPubkeys[1]) ELSE followed

\* importData: { ...this.config, ...data.config }
ImportedConfig(cfg, data) ==
    IF IsSome(data.config)
    THEN [f \in DOMAIN cfg |->
            IF f \in DOMAIN data.config[1] THEN data.config[1][f] ELSE cfg[f]]
    ELSE cfg

-----------------------------------------------------------------------------
(* Inputs of the discovery engine *)

Q == <<"\"">>
WssRelayExampleSlash ==
    <<"w","s","s",":","/","/","r","e","l","a","y",".","e","x","a","m","p","l","e","/">>
WssRelayExample == SubSeq(WssRelayExampleSlash, 1, Len(WssRelayExampleSlash) - 1)
WssLocalhost == <<"w","s","s",":","/","/","l","o","c","a","l","h","o","s","t">>
HttpsRelayExample ==
    <<"h","t","t","p","s",":","/","/","r","e","l","a","y",".","e","x","a","m","p","l","e">>

Localhost == <<"l","o","c","a","l","h","o","s","t">>
ExampleCom == <<"e","x","a","m","p","l","e",".","c","o","m">>
TenNet == <<"1","0",".","0",".">>
RelayDamusIo == <<"r","e","l","a","y",".","d","a","m","u","s",".","i","o">>
NosLol == <<"n","o","s",".","l","o","l">>

(* The configuration the engine is constructed with: defaultStandardConfig  *)
(* with shorter domain lists, a one-hour maxAgeHours and maxRelays 2, so    *)
(* that times stay small and the truncation is exercised.                   *)
InitialConfig ==
    [maxRelays |-> 2,
     minFolloweeRecommendations |-> 2,
     nip65Enabled |-> TRUE,
     nip19Enabled |-> TRUE,
     followContactRelays |-> TRUE,
     blacklistedDomains |-> <<Localhost, ExampleCom, TenNet>>,
     preferredDomains |-> <<RelayDamusIo, NosLol>>,
     maxAgeHours |-> 1]

\* the text and the parse of the JSON object {key: {"relay": url}, ...}
RECURSIVE ContactText(_)
ContactText(pairs) ==
    IF pairs = <<>> THEN <<>>
    ELSE Q \o pairs[1][1] \o Q \o <<":","{">> \o Q \o <<"r","e","l","a","y">> \o Q \o <<":">>
         \o Q \o pairs[1][2] \o Q \o <<"}">>
         \o (IF Len(pairs) > 1 THEN <<",">> ELSE <<>>) \o ContactText(Tail(pairs))

ContactContent(pairs) ==
    [text |-> <<"{">> \o ContactText(pairs) \o <<"}">>,
     json |-> [ok |-> TRUE, object |-> TRUE,
               entries |-> [i \in 1..Len(pairs) |->
                              [key |-> pairs[i][1], object |-> TRUE, relay |-> pairs[i][2]]]]]

Announcement1 ==
    [id |-> 11, pubkey |-> Alice, created_at |-> 0, kind |-> 10002,
     tags |-> << <<R, WssRelayExampleSlash>>, <<R, WssLocalhost>>, <<R, HttpsRelayExample>> >>,
     content |-> NoContent]
Announcement2 ==
    [id |-> 12, pubkey |-> Bob, created_at |-> 3600, kind |-> 10002,
     tags |-> << <<R, WssRelayExample, Read>>, <<R, WssDamus, Write>>, <<R, WssDamus, Write>> >>,
     content |-> NoContent]
HintNote ==
    [id |-> 13, pubkey |-> Bob, created_at |-> 3600, kind |-> 1,
     tags |-> <<>>,
     content |-> [text |-> <<"s","e","e"," ">> \o Nprofile1 \o <<"q","p","z">>
                           \o WssRelayExampleSlash,
                  json |-> NotJson]]
Contacts1 ==
    [id |-> 14, pubkey |-> Carol, created_at |-> 3600, kind |-> 3,
     tags |-> << <<P, Alice>>, <<P, Bob>>, <<P>> >>,
     content |-> ContactContent(<< <<Alice, WssNosLol>>, <<Bob, WssLocalhost>> >>)]
Contacts2 ==
    [id |-> 15, pubkey |-> Alice, created_at |-> 9000, kind |-> 3,
     tags |-> << <<P, Carol>> >>,
     content |-> [text |-> <<"h","e","l","l","o">>, json |-> NotJson]]

\* a contact list whose first three entries are a string, an object without
\* relay, and an object whose relay is no URL
Contacts3 ==
    [id |-> 16, pubkey |-> Carol, created_at |-> 3600, kind |-> 3,
     tags |-> << <<P, Alice>> >>,
     content |->
        [text |-> <<"{","\"","x","\"",":","\"","s","\"",",","\"","y","\"",":","{","}",",","\"","z","\"",":","{","\"","r","e","l","a","y","\"",":","\"","r","e","l","a","y",".","e","x","a","m","p","l","e","\"","}",",","\"","a","l","i","c","e","\"",":","{","\"","r","e","l","a","y","\"",":","\"","w","s","s",":","/","/","r","e","l","a","y",".","e","x","a","m","p","l","e","/","\"","}","}">>,
         json |-> [ok |-> TRUE, object |-> TRUE,
                   entries |-> << [key |-> <<"x">>, object |-> FALSE, relay |-> <<>>],
                                  [key |-> <<"y">>, object |-> TRUE, relay |-> <<>>],
                                  [key |-> <<"z">>, object |-> TRUE,
                                   relay |-> <<"r","e","l","a","y",".","e","x","a","m","p","l","e">>],
                                  [key |-> Alice, object |-> TRUE, relay |-> WssRelayExampleSlash] >>]]]

DiscoveryEvents == {Announcement1, Announcement2, HintNote, Contacts1, Contacts2, Contacts3}

\* values handed to importData
Import1 ==
    [relayRecommendations |->
        Some(<< [url |-> WssLocalhost,
                 readRecommendations |-> Some(<<Alice, Bob>>),
                 writeRecommendations |-> Some(<<>>),
                 lastSeen |-> Some(7200000),
                 sources |-> Some(<<"nip19", "contacts">>)],
                [url |-> WssDamus,
                 readRecommendations |-> Some(<<Alice>>),
                 writeRecommendations |-> Some(<<Bob>>),
                 lastSeen |-> Some(7200000),
                 sources |-> Some(<<"nip65", "nip19">>)],
                [url |-> WssNosLol,
                 readRecommendations |-> Some(<<Carol>>),
                 writeRecommendations |-> None,
                 lastSeen |-> None,
                 sources |-> None] >>),
     followedPubkeys |-> Some(<<Alice>>),
     config |-> None]
Import2 ==
    [relayRecommendations |-> None,
     followedPubkeys |-> None,
     config |-> Some([blacklistedDomains |-> <<Localhost, <<"r","e","l","a","y">> >>])]

\* two relays of equal score, and a third that outranks neither
Import3 ==
    [relayRecommendations |->
        Some(<< [url |-> WssNostrMom,
                 readRecommendations |-> Some(<<Alice, Bob>>),
                 writeRecommendations |-> Some(<<>>),
                 lastSeen |-> Some(7200000),
                 sources |-> Some(<<"contacts">>)],
                [url |-> WssRelayExample,
                 readRecommendations |-> Some(<<Carol>>),
                 writeRecommendations |-> Some(<<Carol>>),
                 lastSeen |-> Some(7200000),
                 sources |-> Some(<<"contacts">>)],
                [url |-> <<"w","s",":","/","/","r","e","l","a","y",".","e","x","a","m","p","l","e">>,
                 readRecommendations |-> Some(<<Alice>>),
                 writeRecommendations |-> Some(<<Bob>>),
                 lastSeen |-> Some(7200000),
                 sources |-> Some(<<"contacts">>)] >>),
     followedPubkeys |-> None,
     config |-> None]

ImportInputs == {Import1, Import2, Import3}

(* Date.now() takes these values, in ms: with maxAgeHours = 1 an entry last  *)
(* seen at 0 is exactly one hour old at the first and stale at the second.  *)
Instants == {3600000, 3600001, 7200000, 7200001}

-----------------------------------------------------------------------------
(* StandardRelayDiscovery: export, and the engine restored from it *)

RECURSIVE SetToSeq(_)
\* Array.from(set)
SetToSeq(S) ==
    IF S = {} THEN <<>>
    ELSE Bind(CHOOSE x \in S : TRUE, LAMBDA x : <<x>> \o SetToSeq(S \ {x}))

\* exportData: the value returned
exportData ==
    [relayRecommendations |->
        Some([i \in DOMAIN relayRecommendations |->
                [url |-> relayRecommendations[i].url,
                 readRecommendations |->
                    Some(SetToSeq(relayRecommendations[i].readRecommendations)),
                 writeRecommendations |->
                    Some(SetToSeq(relayRecommendations[i].writeRecommendations)),
                 lastSeen |-> Some(relayRecommendations[i].lastSeen),
                 sources |-> Some(relayRecommendations[i].sources)]]),
     followedPubkeys |-> Some(SetToSeq(followedPubkeys)),
     config |-> Some(config)]

(* The second engine.  exportData hands out data.sources itself and          *)
(* importData stores entry.sources itself, so an entry of the second engine  *)
(* and the entry it was exported from hold one and the same sources array   *)
(* for as long as the first engine keeps that entry: shared is the set of   *)
(* the urls for which this is so.                                           *)
NotRestored == [made |-> FALSE, table |-> <<>>, followedPubkeys |-> {},
                config |-> <<>>, shared |-> {}]

\* new StandardRelayDiscovery(config).importData(data), data the export of this engine
RestoredFrom(data) ==
    [made |-> TRUE,
     table |-> ImportedTable(<<>>, data),
     followedPubkeys |-> ImportedFollowed({}, data),
     config |-> ImportedConfig(InitialConfig, data),
     shared |-> Keys(relayRecommendations)]

\* the second engine once the first one's table has become after
SharingSources(r, after) ==
    IF ~r.made THEN r
    ELSE [made |-> TRUE,
          table |-> [i \in DOMAIN r.table |->
                        IF r.table[i].url \in r.shared \cap Keys(after)
                        THEN [r.table[i] EXCEPT
                                 !.sources = GetOrNew(after, r.table[i].url).sources]
                        ELSE r.table[i]],
          followedPubkeys |-> r.followedPubkeys,
          config |-> r.config,
          shared |-> r.shared \cap Keys(after)]

\* the relay lists the address loader may come back with
LoadedRelayLists ==
    { [id |-> 4, pubkey |-> Carol, created_at |-> 1200, kind |-> 10002,
       tags |-> << <<R, WssNostrMom>>, <<R, WssDamus>>, <<R>> >>, content |-> NoContent] }

\* relay lists that name a blacklisted relay and a string that is no url
ListsWithBadRelays ==
    { [id |-> 5, pubkey |-> Carol, created_at |-> 1200, kind |-> 10002,
       tags |-> << <<R, WssNostrMom>>, <<R, WssLocalhost>>, <<R, HttpsRelayExample>> >>,
       content |-> NoContent],
      [id |-> 6, pubkey |-> Carol, created_at |-> 2400, kind |-> 10002,
       tags |-> << <<R, WssRelayExample, Read>> >>, content |-> NoContent] }

-----------------------------------------------------------------------------
(* StandardRelayDiscovery: the operations *)

NoCall == [op |-> "none", result |-> <<>>]

serviceIdle == UNCHANGED serviceVars

processNip65Event(event) ==
    \E r \in {Nip65Result(config, relayRecommendations, event)} :
       /\ relayRecommendations' = r.table
       /\ restored' = SharingSources(restored, r.table)
       /\ lastCall' = [op |-> "processNip65Event", result |-> r.newRelays]
       /\ UNCHANGED <<followedPubkeys, config, now>>
       /\ serviceIdle

processNip19Hints(event) ==
    \E r \in {Nip19Result(config, relayRecommendations, event)} :
       /\ relayRecommendations' = r.table
       /\ restored' = SharingSources(restored, r.table)
       /\ lastCall' = [op |-> "processNip19Hints", result |-> r.newRelays]
       /\ UNCHANGED <<followedPubkeys, config, now>>
       /\ serviceIdle

processContactEvent(event) ==
    \E r \in {ContactResult(config, relayRecommendations, event)} :
       /\ relayRecommendations' = r.table
       /\ restored' = SharingSources(restored, r.table)
       /\ followedPubkeys' = ContactFollowed(config, followedPubkeys, event)
       /\ lastCall' = [op |-> "processContactEvent", result |-> r.newRelays]
       /\ UNCHANGED <<config, now>>
       /\ serviceIdle

getRecommendedRelays ==
    /\ relayRecommendations' = WithoutStale(config, relayRecommendations, now)
    /\ restored' = SharingSources(restored, relayRecommendations')
    /\ lastCall' = [op |-> "getRecommendedRelays",
                    result |-> RecommendedList(config, relayRecommendations, now)]
    /\ UNCHANGED <<followedPubkeys, config, now>>
    /\ serviceIdle

cleanup ==
    /\ relayRecommendations' = WithoutStale(config, relayRecommendations, now)
    /\ restored' = SharingSources(restored, relayRecommendations')
    /\ lastCall' = [op |-> "cleanup", result |-> <<>>]
    /\ UNCHANGED <<followedPubkeys, config, now>>
    /\ serviceIdle

importData(data) ==
    /\ relayRecommendations' = ImportedTable(relayRecommendations, data)
    /\ restored' = IF IsSome(data.relayRecommendations)
                   THEN SharingSources(restored, <<>>) ELSE restored
    /\ followedPubkeys' = ImportedFollowed(followedPubkeys, data)
    /\ config' = ImportedConfig(config, data)
    /\ lastCall' = [op |-> "importData", result |-> <<>>]
    /\ UNCHANGED now
    /\ serviceIdle

\* time passes
Tick ==
    /\ \E t \in Instants : t > now /\ now' = t
    /\ UNCHANGED <<relayRecommendations, followedPubkeys, config, lastCall, restored>>
    /\ serviceIdle

\* a second engine is constructed and fed this engine's exportData()
exportImport ==
    /\ ~restored.made
    /\ restored' = RestoredFrom(exportData)
    /\ lastCall' = [op |-> "exportData", result |-> <<>>]
    /\ UNCHANGED <<relayRecommendations, followedPubkeys, config, now>>
    /\ serviceIdle

-----------------------------------------------------------------------------
(* Specifications *)

MaxDeliveries == 2
MaxSubscriptions == 2

\* the relays that deliver, fail, are added and removed
RelayUrls == {WssDamus, WssNostrMom}
ErrorMessages == {"timeout", ""}

\* the state after new NostrService() and new StandardRelayDiscovery()
Init ==
    /\ relayStatuses = [u \in Range(defaultRelays) |-> NewStatus(u)]
    /\ relayStatusesPub = [u \in Range(defaultRelays) |-> NewStatus(u)]
    /\ subscriptions = [u \in Range(defaultRelays) |-> 1]
    /\ eventCounts = EmptyMap
    /\ hashtagEvents = EmptyMap
    /\ hashtagRelayDistribution = EmptyMap
    /\ relayListRequests = {}
    /\ deliveryCalls = EmptyMap
    /\ recorded = EmptyMap
    /\ stopCleanup = FALSE
    /\ cleanupTimer = startCleanupTimer(BehaviorSubjectEmitsOnSubscribe)
    /\ reader = NoReader
    /\ subscriptionRequests = [u \in Range(defaultRelays) |->
                                 [since |-> since, at |-> ModuleLoadTime]]
    /\ relayRecommendations = <<>>
    /\ followedPubkeys = {}
    /\ config = InitialConfig
    /\ now = ModuleLoadTime
    /\ lastCall = NoCall
    /\ restored = NotRestored

DeliverSome == \E r \in RelayUrls, e \in ServiceEvents :
                  totalEvents < MaxDeliveries /\ Deliver(r, e)
ErrorSome == \E r \in RelayUrls, m \in ErrorMessages : SubscriptionError(r, m)
ConnectSome == \E r \in RelayUrls :
                  SubscriptionCount(r) < MaxSubscriptions /\ connectToRelay(r)
RemoveSome == \E r \in RelayUrls : removeRelay(r)
RelayListSome == \E e \in LoadedRelayLists : processRelayListEvent(e)

\* the service: relays deliver, fail, are added and removed
Next == DeliverSome \/ ErrorSome \/ ConnectSome \/ RemoveSome \/ RelayListSome
Spec == Init /\ [][Next]_vars

Nip65Some == \E e \in DiscoveryEvents : processNip65Event(e)
Nip19Some == \E e \in DiscoveryEvents : processNip19Hints(e)
ContactSome == \E e \in DiscoveryEvents : processContactEvent(e)
ImportSome == \E d \in ImportInputs : importData(d)

\* the discovery engine fed by its three processors
NextProcessors == Nip65Some \/ Nip19Some \/ ContactSome \/ getRecommendedRelays
                  \/ cleanup \/ Tick
SpecProcessors == Init /\ [][NextProcessors]_vars

\* the same with persisted data imported
NextDiscovery == NextProcessors \/ ImportSome
SpecDiscovery == Init /\ [][NextDiscovery]_vars

\* announcements and contact lists, with one export into a second engine
NextRestore == Nip65Some \/ ContactSome \/ getRecommendedRelays \/ exportImport
SpecRestore == Init /\ [][NextRestore]_vars

\* constructor(config): this.config = { ...config }
constructor(cfg) == [f \in DOMAIN cfg |-> cfg[f]]

\* configurations an engine is constructed with
ConstructorInputs ==
    { InitialConfig,
      [InitialConfig EXCEPT !.minFolloweeRecommendations = -1],
      [InitialConfig EXCEPT !.maxAgeHours = 0],
      [InitialConfig EXCEPT !.maxRelays = 0] }

\* the state after new NostrService() and new StandardRelayDiscovery(cfg), for cfg
\* any of the configurations given
Constructed(configs) ==
    /\ relayStatuses = [u \in Range(defaultRelays) |-> NewStatus(u)]
    /\ relayStatusesPub = [u \in Range(defaultRelays) |-> NewStatus(u)]
    /\ subscriptions = [u \in Range(defaultRelays) |-> 1]
    /\ eventCounts = EmptyMap
    /\ hashtagEvents = EmptyMap
    /\ hashtagRelayDistribution = EmptyMap
    /\ relayListRequests = {}
    /\ deliveryCalls = EmptyMap
    /\ recorded = EmptyMap
    /\ stopCleanup = FALSE
    /\ cleanupTimer = startCleanupTimer(BehaviorSubjectEmitsOnSubscribe)
    /\ reader = NoReader
    /\ subscriptionRequests = [u \in Range(defaultRelays) |->
                                 [since |-> since, at |-> ModuleLoadTime]]
    /\ relayRecommendations = <<>>
    /\ followedPubkeys = {}
    /\ config \in {constructor(cfg) : cfg \in configs}
    /\ now = ModuleLoadTime
    /\ lastCall = NoCall
    /\ restored = NotRestored

InitConstructed == Constructed(ConstructorInputs)

\* engines constructed with any of these configurations, fed announcements and
\* contact lists
NextConstructed == Nip65Some \/ ContactSome \/ getRecommendedRelays \/ Tick
SpecConstructed == InitConstructed /\ [][NextConstructed]_vars

\* configurations with one of the three sources switched off
SwitchConfigs ==
    { InitialConfig,
      [InitialConfig EXCEPT !.nip65Enabled = FALSE],
      [InitialConfig EXCEPT !.nip19Enabled = FALSE],
      [InitialConfig EXCEPT !.followContactRelays = FALSE] }

\* an announcement's tags under the kind of a note, a contact list's tags and
\* content under the kind of an announcement
MisdirectedEvents ==
    { [Announcement2 EXCEPT !.id = 17, !.kind = 1],
      [Contacts1 EXCEPT !.id = 18, !.kind = 10002] }

InitSwitches == Constructed(SwitchConfigs)
Nip65Any == \E e \in DiscoveryEvents \cup MisdirectedEvents : processNip65Event(e)
Nip19Any == \E e \in DiscoveryEvents \cup MisdirectedEvents : processNip19Hints(e)
ContactAny == \E e \in DiscoveryEvents \cup MisdirectedEvents : processContactEvent(e)

\* engines with a source switched off, fed events of every kind by every processor
NextSwitches == Nip65Any \/ Nip19Any \/ ContactAny
SpecSwitches == InitSwitches /\ [][NextSwitches]_vars

\* a relay written with two trailing slashes
WssRelayExampleSlashSlash == WssRelayExampleSlash \o <<"/">>

\* an announcement and a contact list that name the relay so
SlashedEvents ==
    { [id |-> 19, pubkey |-> Alice, created_at |-> 3600, kind |-> 10002,
       tags |-> << <<R, WssRelayExampleSlashSlash>> >>,
       content |-> NoContent],
      [id |-> 20, pubkey |-> Carol, created_at |-> 3600, kind |-> 3,
       tags |-> << <<P, Bob>> >>,
       content |-> ContactContent(<< <<Bob, WssRelayExampleSlashSlash>> >>)] }

SlashedSome == \E e \in SlashedEvents : processNip65Event(e) \/ processContactEvent(e)

\* the engine fed the events of the model and the slashed ones
NextSlashes == SlashedSome \/ Nip65Some \/ ContactSome
SpecSlashes == Init /\ [][NextSlashes]_vars

\* an announcement whose signer dates it 9000 s, ahead of every clock of the model
PostdatedAnnouncement ==
    [id |-> 21, pubkey |-> Alice, created_at |-> 9000, kind |-> 10002,
     tags |-> << <<R, WssRelayExample>> >>,
     content |-> NoContent]

PostdatedSome == processNip65Event(PostdatedAnnouncement)

\* the engine fed announcements, the postdated one among them, and contact lists
\* while time passes
NextClock == PostdatedSome \/ Nip65Some \/ ContactSome \/ getRecommendedRelays \/ Tick
SpecClock == Init /\ [][NextClock]_vars

\* the service with the relay lists its loader brings
AnyRelayListSome == \E e \in LoadedRelayLists \cup ListsWithBadRelays :
                       processRelayListEvent(e)
NextAutoDiscovery == DeliverSome \/ RemoveSome \/ AnyRelayListSome
SpecAutoDiscovery == Init /\ [][NextAutoDiscovery]_vars

\* the service delivering while a caller reads the topic lists
ReadSome == \E h \in {Bitcoin, BitcoinCap, NostrTag} : readHashtagEvents(h)
NextReads == DeliverSome \/ ConnectSome \/ ReadSome
SpecReads == Init /\ [][NextReads]_vars

\* the service while time passes: relays are added long after the module was loaded
NextWindow == ConnectSome \/ RemoveSome \/ Tick
SpecWindow == Init /\ [][NextWindow]_vars

\* the service until and after disconnect()
NextTeardown == DeliverSome \/ ErrorSome \/ ConnectSome \/ disconnect
SpecTeardown == Init /\ [][NextTeardown]_vars

(* One relay delivering a long run of notes on one topic.  Every note is   *)
(* either new to the topic or one the topic list still holds.              *)
MaxCapIds == 103
MaxRedeliveries == 2

CapEvent(id) == [id |-> id, pubkey |-> Alice, created_at |-> id, kind |-> 1,
                 tags |-> << <<T, Bitcoin>> >>, content |-> NoContent]

ArrivedIds(hashtag) == IF hashtag \in DOMAIN recorded THEN recorded[hashtag] ELSE <<>>

CapFresh ==
    /\ Len(ArrivedIds(Bitcoin)) < MaxCapIds
    /\ Deliver(WssDamus, CapEvent(Len(ArrivedIds(Bitcoin)) + 1))

CapRedeliver ==
    /\ totalEvents - Len(ArrivedIds(Bitcoin)) < MaxRedeliveries
    /\ \E i \in DOMAIN getHashtagEvents(Bitcoin) :
          Deliver(WssDamus, getHashtagEvents(Bitcoin)[i])

NextCap == CapFresh \/ CapRedeliver
SpecCap == Init /\ [][NextCap]_vars

-----------------------------------------------------------------------------
(* Properties of the Topic Index *)

Ids(events) == [i \in DOMAIN events |-> events[i].id]
Reverse(xs) == [i \in DOMAIN xs |-> xs[Len(xs) + 1 - i]]
Topics == DOMAIN hashtagEvents
Listed(hashtag, id) == id \in Range(Ids(getHashtagEvents(hashtag)))

NoDuplicateIds ==
    \A h \in Topics : \A i, j \in DOMAIN hashtagEvents[h] :
        i # j => hashtagEvents[h][i].id # hashtagEvents[h][j].id

RedeliveryLeavesList ==
    \A r \in RelayUrls, e \in ServiceEvents :
        Deliver(r, e) =>
            \A h \in Range(Hashtags(e)) :
                Listed(h, e.id) => hashtagEvents'[h] = hashtagEvents[h]

(* C1: no topic list ever holds two messages with the same id, and the      *)
(* delivery of a message whose id a topic list already holds leaves that   *)
(* list as it was, in length and in order.                                 *)
C1_Deduplication == []NoDuplicateIds /\ [][RedeliveryLeavesList]_vars

\* note 1, the only kind 1 note tagged nostr, was delivered twice and is listed once
C1_Witness ==
    /\ 1 \in DOMAIN eventCounts /\ eventCounts[1] = 2 /\ totalEvents = 2
    /\ SetSum([r \in RelayUrls |->
                  IF <<NostrTag, r>> \in DOMAIN deliveryCalls
                  THEN deliveryCalls[<<NostrTag, r>>] ELSE 0], RelayUrls) = 2
    /\ Ids(getHashtagEvents(NostrTag)) = <<1>>

LastArrived(hashtag, n) ==
    SubSeq(ArrivedIds(hashtag), Len(ArrivedIds(hashtag)) - n + 1, Len(ArrivedIds(hashtag)))

(* C2: every topic list holds at most 100 messages, and once more than 100 *)
(* distinct ids have arrived under a topic its list holds exactly the 100  *)
(* that arrived last, the latest first.                                    *)
C2_Cap ==
    /\ \A h \in Topics : Len(getHashtagEvents(h)) <= 100
    /\ \A h \in DOMAIN recorded :
          Len(recorded[h]) > 100 =>
              /\ Len(getHashtagEvents(h)) = 100
              /\ Ids(getHashtagEvents(h)) = Reverse(LastArrived(h, 100))

\* more than 100 ids arrived, some delivered again, and the three oldest are gone
C2_Witness ==
    /\ Len(ArrivedIds(Bitcoin)) = 103
    /\ totalEvents > Len(ArrivedIds(Bitcoin))
    /\ Len(getHashtagEvents(Bitcoin)) = 100
    /\ getHashtagEvents(Bitcoin)[100].id = 4

DeliveryCallsOf(hashtag, relayUrl) ==
    IF <<hashtag, relayUrl>> \in DOMAIN deliveryCalls
    THEN deliveryCalls[<<hashtag, relayUrl>>] ELSE 0

CountOf(relayDist, relayUrl) ==
    IF \E i \in DOMAIN relayDist : relayDist[i].relay = relayUrl
    THEN relayDist[CHOOSE i \in DOMAIN relayDist : relayDist[i].relay = relayUrl].count
    ELSE 0

(* C3: for every topic and relay, the count the distribution of the topic  *)
(* reports for the relay is the number of deliveries by that relay of a    *)
(* message that references the topic.                                      *)
C3_DistributionAdditivity ==
    \A h \in {Bitcoin, NostrTag}, r \in RelayUrls :
        CountOf(getHashtagRelayDistribution(h), r) = DeliveryCallsOf(h, r)

-----------------------------------------------------------------------------
(* Properties of the discovery engine *)

Returned == IF lastCall.op = "getRecommendedRelays" THEN lastCall.result ELSE <<>>
Entry(url) == GetOrNew(relayRecommendations, url)
Endorsers(url) == Entry(url).readRecommendations \cup Entry(url).writeRecommendations

(* C4: with a threshold of 2, every relay getRecommendedRelays returns has *)
(* been endorsed by at least two distinct authors.                         *)
C4_DistinctAuthors ==
    \A i \in DOMAIN Returned :
        Cardinality(Endorsers(Returned[i].url)) >= config.minFolloweeRecommendations

(* C5: every entry getRecommendedRelays returns reports the sizes of the   *)
(* read and write endorser sets of its relay, their sum as totalRecs, and  *)
(* that sum is at least minFolloweeRecommendations.                        *)
C5_CombinedCount ==
    \A i \in DOMAIN Returned :
        /\ Returned[i].readRecs = Cardinality(Entry(Returned[i].url).readRecommendations)
        /\ Returned[i].writeRecs = Cardinality(Entry(Returned[i].url).writeRecommendations)
        /\ Returned[i].totalRecs = Returned[i].readRecs + Returned[i].writeRecs
        /\ Returned[i].totalRecs >= config.minFolloweeRecommendations

\* a returned relay with an author in both sets and another in one of them
C5_Witness ==
    \E i \in DOMAIN Returned :
        /\ Returned[i].readRecs = 2 /\ Returned[i].writeRecs = 1
        /\ Entry(Returned[i].url).writeRecommendations
              \subseteq Entry(Returned[i].url).readRecommendations

(* C6: no relay the active configuration blacklists is in the table or in  *)
(* what getRecommendedRelays returned.                                     *)
C6_BlacklistPrecedence ==
    /\ \A i \in DOMAIN relayRecommendations :
          ~isBlacklisted(config, relayRecommendations[i].url)
    /\ \A i \in DOMAIN Returned : ~isBlacklisted(config, Returned[i].url)

TooOld(data) == now - data.lastSeen > config.maxAgeHours * 3600 * 1000

SweepsOldEntries ==
    (getRecommendedRelays \/ cleanup) =>
        /\ \A i \in DOMAIN relayRecommendations :
              IF TooOld(relayRecommendations[i])
              THEN /\ relayRecommendations[i].url \notin Keys(relayRecommendations')
                   /\ \A k \in DOMAIN lastCall'.result :
                         lastCall'.result[k].url # relayRecommendations[i].url
              ELSE relayRecommendations[i] \in Range(relayRecommendations')
        /\ Len(relayRecommendations') <= Len(relayRecommendations)

(* C7: getRecommendedRelays and cleanup delete from the table every entry  *)
(* last seen more than maxAgeHours ago, getRecommendedRelays returns none  *)
(* of them, and neither deletes an entry last seen maxAgeHours ago or      *)
(* later.                                                                  *)
C7_TTL == [][SweepsOldEntries]_vars

\* an entry exactly maxAgeHours old was kept and returned
C7_Witness ==
    \E i \in DOMAIN Returned :
        /\ now - Returned[i].lastSeen = config.maxAgeHours * 3600 * 1000
        /\ Returned[i].url \in Keys(relayRecommendations)

AnnouncedByAliceOnly ==
    /\ Keys(relayRecommendations) = {WssRelayExample}
    /\ Entry(WssRelayExample).readRecommendations = {Alice}
    /\ Entry(WssRelayExample).writeRecommendations = {Alice}
    /\ Entry(WssRelayExample).sources = <<"nip65">>
    /\ ~TooOld(Entry(WssRelayExample))

HintCompletesScenario ==
    (AnnouncedByAliceOnly /\ processNip19Hints(HintNote)) =>
        \E rec \in {RecommendedList(config', relayRecommendations', now')} :
            /\ Len(rec) = 1
            /\ rec[1].url = WssRelayExample
            /\ rec[1].totalRecs = 2
            /\ {"nip65", "nip19"} \subseteq Range(rec[1].sources)

(* C8: once Alice's announcement of wss://relay.example/ without a marker  *)
(* is processed, processing Bob's note with a hint to the same URL leaves  *)
(* getRecommendedRelays with one entry, for wss://relay.example, with      *)
(* totalRecs 2 and both the nip65 and the nip19 source.                    *)
C8_TwoSources == [][HintCompletesScenario]_vars

Processed(event) ==
    processNip65Event(event) \/ processNip19Hints(event) \/ processContactEvent(event)

Crossed(url) ==
    /\ ~MeetsThreshold(config, Entry(url))
    /\ url \in Keys(relayRecommendations')
    /\ MeetsThreshold(config, GetOrNew(relayRecommendations', url))

ReturnsNewlyCrossing ==
    \A e \in DiscoveryEvents :
        Processed(e) =>
            /\ \A k \in DOMAIN lastCall'.result : Crossed(lastCall'.result[k])
            /\ \A url \in Keys(relayRecommendations') :
                  Crossed(url) => url \in Range(lastCall'.result)
            /\ \A k, l \in DOMAIN lastCall'.result :
                  k # l => lastCall'.result[k] # lastCall'.result[l]

(* C9: each processor returns the relays whose combined endorsement count  *)
(* was below the threshold before the call and is at or above it after,    *)
(* each of them once.                                                      *)
C9_NewlyCrossing == [][ReturnsNewlyCrossing]_vars

Hostname(url) == ParseURL(url).hostname
OnPreferredDomain(url) ==
    \E k \in DOMAIN config.preferredDomains :
        \/ Hostname(url) = config.preferredDomains[k]
        \/ EndsWith(Hostname(url), <<".">> \o config.preferredDomains[k])

(* C10: the score of every returned entry is its totalRecs, plus 10 on a   *)
(* preferred domain, plus 5 with the nip65 source, plus 2 with the nip19   *)
(* source; no entry is returned below the threshold.                       *)
C10_Score ==
    \A i \in DOMAIN Returned :
        /\ Returned[i].score =
              Returned[i].totalRecs
              + (IF OnPreferredDomain(Returned[i].url) THEN 10 ELSE 0)
              + (IF "nip65" \in Range(Returned[i].sources) THEN 5 ELSE 0)
              + (IF "nip19" \in Range(Returned[i].sources) THEN 2 ELSE 0)
        /\ Returned[i].totalRecs >= config.minFolloweeRecommendations

\* all three bonuses on one entry, and an entry whose contacts source adds nothing
C10_Witness ==
    /\ \E i \in DOMAIN Returned :
          /\ OnPreferredDomain(Returned[i].url)
          /\ {"nip65", "nip19"} \subseteq Range(Returned[i].sources)
          /\ Returned[i].score = Returned[i].totalRecs + 17
    /\ \E i \in DOMAIN Returned :
          /\ "contacts" \in Range(Returned[i].sources)
          /\ ~OnPreferredDomain(Returned[i].url)
          /\ Returned[i].score = Returned[i].totalRecs + 2

PositionOf(url) == CHOOSE i \in DOMAIN relayRecommendations : relayRecommendations[i].url = url
ReturnedUrls == {Returned[i].url : i \in DOMAIN Returned}

ExpectedScore(data) ==
    Cardinality(data.readRecommendations) + Cardinality(data.writeRecommendations)
    + (IF OnPreferredDomain(data.url) THEN 10 ELSE 0)
    + (IF "nip65" \in Range(data.sources) THEN 5 ELSE 0)
    + (IF "nip19" \in Range(data.sources) THEN 2 ELSE 0)

QualifiesNow(data) ==
    /\ ~TooOld(data)
    /\ Cardinality(data.readRecommendations) + Cardinality(data.writeRecommendations)
          >= config.minFolloweeRecommendations

OmittedQualifying ==
    {i \in DOMAIN relayRecommendations :
        /\ QualifiesNow(relayRecommendations[i])
        /\ relayRecommendations[i].url \notin ReturnedUrls}

(* C11: what getRecommendedRelays returns is in non-increasing score order, *)
(* entries of equal score are in the order of their relays in the table, it *)
(* has at most maxRelays entries, and no qualifying relay it omits scores   *)
(* higher than one it returns.                                              *)
C11_Ranking ==
    /\ \A i, j \in DOMAIN Returned :
          i < j =>
              /\ Returned[i].score >= Returned[j].score
              /\ Returned[i].score = Returned[j].score
                    => PositionOf(Returned[i].url) < PositionOf(Returned[j].url)
    /\ Len(Returned) <= config.maxRelays
    /\ \A i \in OmittedQualifying, k \in DOMAIN Returned :
          ExpectedScore(relayRecommendations[i]) <= Returned[k].score
    /\ lastCall.op = "getRecommendedRelays" /\ Len(Returned) < config.maxRelays
          => OmittedQualifying = {}

\* two relays tie for the places and a third qualifying relay is cut off
C11_Witness ==
    /\ Len(Returned) = 2
    /\ Returned[1].score = Returned[2].score
    /\ OmittedQualifying # {}

\* URLs handed to isBlacklisted
WssSubExampleCom == <<"w","s","s",":","/","/","s","u","b",".","e","x","a","m","p","l","e",".","c","o","m">>
WssNotExampleCom == <<"w","s","s",":","/","/","n","o","t","e","x","a","m","p","l","e",".","c","o","m">>
WssTenZero == <<"w","s","s",":","/","/","1","0",".","0",".","0",".","1">>
WssLocalhostEvil == <<"w","s","s",":","/","/","l","o","c","a","l","h","o","s","t",".","e","v","i","l",".","i","o",":","8","0","8","0","/","x">>
WssUpperLocalhost == <<"W","S","S",":","/","/","L","O","C","A","L","H","O","S","T">>
NotAUrl == <<"r","e","l","a","y",".","e","x","a","m","p","l","e">>
BlacklistProbes ==
    {WssLocalhost, WssSubExampleCom, WssNotExampleCom, WssTenZero, WssLocalhostEvil,
     WssUpperLocalhost, NotAUrl, WssRelayExample, WssRelayExampleSlash, HttpsRelayExample,
     WssDamus, WssNosLol, WssNostrMom}

HostMatches(host, domain) ==
    \/ host = domain
    \/ /\ Len(host) > Len(domain)
       /\ SubSeq(host, Len(host) - Len(domain), Len(host)) = <<".">> \o domain
    \/ /\ Len(host) >= Len(domain)
       /\ SubSeq(host, 1, Len(domain)) = domain

(* C12: isBlacklisted holds of a URL exactly when the URL does not parse or *)
(* its hostname equals an entry of blacklistedDomains, ends with '.' and an *)
(* entry, or starts with an entry.                                          *)
C12_BlacklistMatching ==
    \A u \in BlacklistProbes :
        isBlacklisted(config, u) <=>
            \/ ~ParseURL(u).ok
            \/ \E k \in DOMAIN config.blacklistedDomains :
                  HostMatches(Hostname(u), config.blacklistedDomains[k])

\* Alice's announcement lists relay.example and localhost: only the first got in
C12_Witness ==
    /\ lastCall.op = "processNip65Event"
    /\ Keys(relayRecommendations) = {WssRelayExample}
    /\ Localhost \in Range(config.blacklistedDomains)
    /\ isBlacklisted(config, WssTenZero)
    /\ isBlacklisted(config, WssSubExampleCom)
    /\ isBlacklisted(config, WssLocalhostEvil)
    /\ isBlacklisted(config, NotAUrl)
    /\ isBlacklisted(config, WssUpperLocalhost)
    /\ ~isBlacklisted(config, WssNotExampleCom)
    /\ ~isBlacklisted(config, HttpsRelayExample)

EntryAfter(url) == GetOrNew(relayRecommendations', url)

\* per event and tag: the relay an r tag names, normalized; <<>> for any other tag
AnnouncedUrl ==
    [e \in DiscoveryEvents |->
        [i \in DOMAIN e.tags |->
            IF /\ Len(e.tags[i]) >= 2
               /\ e.tags[i][1] = R
               /\ e.tags[i][2] # <<>>
               /\ isValidRelayUrl(e.tags[i][2])
            THEN normalizeRelayUrl(e.tags[i][2])
            ELSE <<>>]]

\* the r tags of the event that endorse url
EndorsingTags(event, url) ==
    IF isBlacklisted(config, url) THEN {}
    ELSE {i \in DOMAIN event.tags : AnnouncedUrl[event][i] = url}

MarkerOf(tag) == IF Len(tag) >= 3 THEN tag[3] ELSE <<>>

WithSource(sources, source) ==
    IF \E k \in DOMAIN sources : sources[k] = source THEN sources ELSE sources \o <<source>>

AnnouncementStep(event) ==
    (/\ event.kind = 10002 /\ config.nip65Enabled
     /\ lastCall'.op = "processNip65Event"
     /\ processNip65Event(event)) =>
        \A url \in (Keys(relayRecommendations) \cup Keys(relayRecommendations')
                    \cup Range(AnnouncedUrl[event])) \ {<<>>} :
          \E tags \in {EndorsingTags(event, url)} :
            IF tags = {}
            THEN /\ (url \in Keys(relayRecommendations')) = (url \in Keys(relayRecommendations))
                 /\ EntryAfter(url) = Entry(url)
            ELSE /\ url \in Keys(relayRecommendations')
                 /\ EntryAfter(url).readRecommendations =
                       Entry(url).readRecommendations \cup
                       (IF \E i \in tags : MarkerOf(event.tags[i]) # Write
                        THEN {event.pubkey} ELSE {})
                 /\ EntryAfter(url).writeRecommendations =
                       Entry(url).writeRecommendations \cup
                       (IF \E i \in tags : MarkerOf(event.tags[i]) # Read
                        THEN {event.pubkey} ELSE {})
                 /\ EntryAfter(url).lastSeen =
                       (IF Entry(url).lastSeen >= event.created_at * 1000
                        THEN Entry(url).lastSeen ELSE event.created_at * 1000)
                 /\ EntryAfter(url).sources = WithSource(Entry(url).sources, "nip65")

(* C13: processNip65Event adds the author of an announcement to the read    *)
(* endorsers of every valid, not blacklisted relay it lists with the marker *)
(* read, to the write endorsers with the marker write, to both without a    *)
(* marker; lastSeen becomes the maximum of its old value and created_at *   *)
(* 1000, nip65 is among the sources once, and no other entry changes.       *)
C13_Markers == [][\A e \in DiscoveryEvents : AnnouncementStep(e)]_vars

\* after both announcements: Bob reads relay.example, writes relay.damus.io
C13_Witness ==
    /\ lastCall.op = "processNip65Event"
    /\ Entry(WssRelayExample).readRecommendations = {Alice, Bob}
    /\ Entry(WssRelayExample).writeRecommendations = {Alice}
    /\ Entry(WssRelayExample).lastSeen = 3600000
    /\ Entry(WssRelayExample).sources = <<"nip65">>
    /\ Entry(WssDamus).readRecommendations = {}
    /\ Entry(WssDamus).writeRecommendations = {Bob}

HintStep ==
    (/\ config.nip19Enabled
     /\ ~isBlacklisted(config, WssRelayExample)
     /\ lastCall'.op = "processNip19Hints"
     /\ processNip19Hints(HintNote)) =>
        /\ WssRelayExample \in Keys(relayRecommendations')
        /\ Bob \in EntryAfter(WssRelayExample).readRecommendations
        /\ EntryAfter(WssRelayExample).writeRecommendations
              = Entry(WssRelayExample).writeRecommendations
        /\ \E k \in DOMAIN EntryAfter(WssRelayExample).sources :
              EntryAfter(WssRelayExample).sources[k] = "nip19"

(* C14: processNip19Hints of Bob's note, whose nprofile entity carries the  *)
(* URL wss://relay.example/, leaves the table with an entry for             *)
(* wss://relay.example that has Bob among its read endorsers, unchanged     *)
(* write endorsers and the nip19 source.                                    *)
C14_Hints == [][HintStep]_vars

PTagged(event) ==
    {event.tags[i][2] : i \in {j \in DOMAIN event.tags :
                                  /\ Len(event.tags[j]) >= 2
                                  /\ event.tags[j][1] = P
                                  /\ event.tags[j][2] # <<>>}}

WellFormed(relayInfo) ==
    /\ relayInfo.object
    /\ relayInfo.relay # <<>>
    /\ isValidRelayUrl(relayInfo.relay)
    /\ ~isBlacklisted(config, relayInfo.relay)

ContactStep(event) ==
    (/\ event.kind = 3 /\ config.followContactRelays
     /\ lastCall'.op = "processContactEvent"
     /\ processContactEvent(event)) =>
        /\ followedPubkeys' = followedPubkeys \cup PTagged(event)
        /\ IF event.content.json.ok /\ event.content.json.object
           THEN \A k \in DOMAIN event.content.json.entries :
                   WellFormed(event.content.json.entries[k]) =>
                       \E url \in {normalizeRelayUrl(event.content.json.entries[k].relay)} :
                          /\ url \in Keys(relayRecommendations')
                          /\ event.pubkey \in EntryAfter(url).readRecommendations
                          /\ \E n \in DOMAIN EntryAfter(url).sources :
                                EntryAfter(url).sources[n] = "contacts"
           ELSE /\ lastCall'.result = <<>>
                /\ relayRecommendations' = relayRecommendations

(* C15: processContactEvent adds every p-tagged pubkey of a contact list to *)
(* followedPubkeys; with content that is no JSON object it returns nothing  *)
(* and leaves the table as it was; with content that is one, every entry    *)
(* that names a valid, not blacklisted relay is recorded whatever the other *)
(* entries look like.                                                       *)
C15_ContactList == [][\A e \in DiscoveryEvents : ContactStep(e)]_vars

\* Alice's contact list with the content 'hello' was the only one processed
C15_Witness ==
    /\ lastCall.op = "processContactEvent"
    /\ lastCall.result = <<>>
    /\ relayRecommendations = <<>>
    /\ followedPubkeys = {Carol}

SameEngine ==
    /\ restored'.table = relayRecommendations
    /\ restored'.followedPubkeys = followedPubkeys
    /\ restored'.config = config
    /\ RecommendedList(restored'.config, restored'.table, now)
          = RecommendedList(config, relayRecommendations, now)

SecondEngineUntouched ==
    /\ restored'.table = restored.table
    /\ restored'.followedPubkeys = restored.followedPubkeys
    /\ restored'.config = restored.config

RoundTripStep ==
    /\ exportImport => SameEngine
    /\ restored.made => SecondEngineUntouched

(* C16: an engine built by importData from exportData() of this engine has  *)
(* the same table, followed pubkeys and configuration and recommends the    *)
(* same relays, and no later call on this engine changes it.                *)
C16_RoundTrip == [][RoundTripStep]_vars

ImportedAs(entry) ==
    [url |-> entry.url,
     readRecommendations |->
        IF entry.readRecommendations = <<>> THEN {}
        ELSE {entry.readRecommendations[1][k] : k \in DOMAIN entry.readRecommendations[1]},
     writeRecommendations |->
        IF entry.writeRecommendations = <<>> THEN {}
        ELSE {entry.writeRecommendations[1][k] : k \in DOMAIN entry.writeRecommendations[1]},
     lastSeen |-> IF entry.lastSeen = <<>> THEN 0 ELSE entry.lastSeen[1],
     sources |-> IF entry.sources = <<>> THEN <<>> ELSE entry.sources[1]]

ImportStep(data) ==
    (lastCall'.op = "importData" /\ importData(data)) =>
        /\ data.relayRecommendations # <<>> =>
              \A k \in DOMAIN data.relayRecommendations[1] :
                  data.relayRecommendations[1][k].url # <<>> =>
                      \E i \in DOMAIN relayRecommendations' :
                          relayRecommendations'[i] = ImportedAs(data.relayRecommendations[1][k])
        /\ data.followedPubkeys # <<>> =>
              followedPubkeys' = {data.followedPubkeys[1][k] : k \in DOMAIN data.followedPubkeys[1]}
        /\ data.config # <<>> =>
              \A f \in DOMAIN data.config[1] : config'[f] = data.config[1][f]

(* C17: importData stores every entry that has a url, a missing endorser    *)
(* set, lastSeen or sources being taken as empty, and imports the followed  *)
(* pubkeys and the configuration that come with it.                         *)
C17_ImportTolerance == [][\A d \in ImportInputs : ImportStep(d)]_vars

-----------------------------------------------------------------------------
(* More properties of the Topic Index *)

(* C18: getHashtagRelayDistribution returns the relays of a topic in        *)
(* non-increasing order of their counts.                                    *)
C18_DistributionSorted ==
    \A h \in {Bitcoin, NostrTag} :
        \A i, j \in DOMAIN getHashtagRelayDistribution(h) :
            i < j => getHashtagRelayDistribution(h)[i].count
                        >= getHashtagRelayDistribution(h)[j].count

ArrivalRank(hashtag, id) ==
    CHOOSE k \in DOMAIN ArrivedIds(hashtag) : ArrivedIds(hashtag)[k] = id

(* C19: of two messages in a topic list, the one that arrived later stands  *)
(* in front, whatever their created_at.                                     *)
C19_ArrivalOrder ==
    \A h \in Topics :
        \A i, j \in DOMAIN hashtagEvents[h] :
            i < j => ArrivalRank(h, hashtagEvents[h][i].id)
                        > ArrivalRank(h, hashtagEvents[h][j].id)

\* note 2, signed earlier than note 1, arrived after it and stands in front
C19_Witness ==
    /\ Ids(getHashtagEvents(Bitcoin)) = <<2, 1>>
    /\ ArrivedIds(Bitcoin) = <<1, 2>>
    /\ getHashtagEvents(Bitcoin)[1].created_at < getHashtagEvents(Bitcoin)[2].created_at

BitcoinUpper == <<"B","I","T","C","O","I","N">>
Spellings == {Bitcoin, BitcoinCap, BitcoinUpper}

HasUpperCase(h) == \E k \in DOMAIN h : h[k] \in UpperSet

OneEntryPerTopic ==
    /\ \A h \in DOMAIN hashtagEvents \cup DOMAIN hashtagRelayDistribution : ~HasUpperCase(h)
    /\ \A h \in Spellings :
          /\ getHashtagEvents(h) = getHashtagEvents(Bitcoin)
          /\ getHashtagRelayDistribution(h) = getHashtagRelayDistribution(Bitcoin)

TopicTags(event) ==
    {event.tags[i][2] : i \in {j \in DOMAIN event.tags :
                                  /\ Len(event.tags[j]) >= 2
                                  /\ event.tags[j][1] = T
                                  /\ event.tags[j][2] # <<>>}}

RecordedUnderLowercase ==
    \A r \in RelayUrls, e \in ServiceEvents :
        Deliver(r, e) =>
            \A tag \in TopicTags(e) :
                /\ toLowerCase(tag) \in DOMAIN hashtagEvents'
                /\ \E i \in DOMAIN hashtagEvents'[toLowerCase(tag)] :
                      hashtagEvents'[toLowerCase(tag)][i].id = e.id
                /\ toLowerCase(tag) \in DOMAIN hashtagRelayDistribution'
                /\ CountOf(hashtagRelayDistribution'[toLowerCase(tag)], r)
                      > CountOf(getHashtagRelayDistribution(tag), r)

(* C20: a message is recorded, in the topic lists and in the distribution,  *)
(* under the lowercase form of each of its t tags; no entry has an upper    *)
(* case key, and the getters return the same entry for every spelling.      *)
C20_CaseInsensitive == []OneEntryPerTopic /\ [][RecordedUnderLowercase]_vars

\* note 1 tagged bitcoin and note 2 tagged Bitcoin are in one list
C20_Witness ==
    /\ {1, 2} \subseteq Range(Ids(getHashtagEvents(BitcoinUpper)))
    /\ BitcoinCap \notin DOMAIN hashtagEvents
    /\ getHashtagRelayDistribution(BitcoinCap) # <<>>

-----------------------------------------------------------------------------
(* Properties of the Ingestion Coordinator *)

Monitored(url) == url \in DOMAIN relayStatuses

(* C21: connectToRelay(url) on a url without a status registers the status *)
(* {connected: false, eventsReceived: 0} (no lastActivity, no error); on a *)
(* url that has a status it leaves connected, eventsReceived, lastActivity *)
(* and error of that status as they were.                                  *)
C21_AddEndpoint ==
    [][\A url \in RelayUrls :
          connectToRelay(url) =>
             /\ url \in DOMAIN relayStatuses'
             /\ IF Monitored(url)
                THEN /\ relayStatuses'[url].connected = relayStatuses[url].connected
                     /\ relayStatuses'[url].eventsReceived = relayStatuses[url].eventsReceived
                     /\ relayStatuses'[url].lastActivity = relayStatuses[url].lastActivity
                     /\ relayStatuses'[url].error = relayStatuses[url].error
                ELSE /\ relayStatuses'[url].connected = FALSE
                     /\ relayStatuses'[url].eventsReceived = 0
                     /\ relayStatuses'[url].lastActivity = <<>>
                     /\ relayStatuses'[url].error = Undefined]_vars

(* a relay outside the default list has been added and is still as registered, *)
(* and a relay that had delivered and then failed has been connected again:    *)
(* two live subscriptions next to a stored error mean the last call came after *)
(* the error                                                                   *)
C21_Witness ==
    /\ Monitored(WssNostrMom)
    /\ relayStatuses[WssNostrMom] = NewStatus(WssNostrMom)
    /\ Monitored(WssDamus)
    /\ SubscriptionCount(WssDamus) = 2
    /\ relayStatuses[WssDamus].eventsReceived = 1
    /\ relayStatuses[WssDamus].error = "timeout"

\* the urls a loaded relay list names in its r tags
ListedRelays(event) ==
    {TagAt(tag, 1) : tag \in {t \in Range(event.tags) : TagAt(t, 0) = R /\ Truthy(TagAt(t, 1))}}

\* this step calls connectToRelay(url), from outside or from processRelayListEvent
Connects(url) ==
    \/ connectToRelay(url)
    \/ \E e \in LoadedRelayLists : url \in ListedRelays(e) /\ processRelayListEvent(e)

\* url has no status entry and no live subscription
TornDown(url) == ~Monitored(url) /\ SubscriptionCount(url) = 0

\* what the topic distribution holds for url, per topic
DistributionOf(dist, url) ==
    [h \in DOMAIN dist |-> CountOf(dist[h], url)]

ErrorShown(status) == IF status.error = Undefined THEN "" ELSE status.error

(* C23: when a subscription of a monitored relay signals an error, the status *)
(* of the relay becomes connected = false and shows the message of that       *)
(* error, its eventsReceived is as before, and the relay is still monitored.  *)
C23_ErrorStatus ==
    [][\A url \in RelayUrls, message \in ErrorMessages :
          (Monitored(url) /\ SubscriptionError(url, message)) =>
             /\ url \in DOMAIN relayStatuses'
             /\ relayStatuses'[url].connected = FALSE
             /\ ErrorShown(relayStatuses'[url]) = message
             /\ relayStatuses'[url].eventsReceived = relayStatuses[url].eventsReceived]_vars

\* every relay the service knows of or holds a subscription to
KnownRelays == DOMAIN relayStatuses \cup DOMAIN subscriptions

(* C24: an error on a subscription of one relay leaves the status of every   *)
(* other relay as it was and ends no subscription of another relay, so that  *)
(* every other relay that could deliver before the error can deliver after   *)
(* it; nothing of the Topic Index or of the counters is touched.             *)
C24_Isolation ==
    [][\A url \in RelayUrls, message \in ErrorMessages :
          SubscriptionError(url, message) =>
             /\ KnownRelays' = KnownRelays
             /\ \A other \in KnownRelays \ {url} :
                    /\ Monitored(other)' = Monitored(other)
                    /\ Monitored(other) => relayStatuses'[other] = relayStatuses[other]
                    /\ SubscriptionCount(other)' = SubscriptionCount(other)
             /\ UNCHANGED <<hashtagEvents, hashtagRelayDistribution, eventCounts>>]_vars

(* a relay has failed after its one delivery, and the other relay's status *)
(* records a delivery of its own and no error                              *)
C24_Witness ==
    /\ Monitored(WssDamus)
    /\ relayStatuses[WssDamus].connected = FALSE
    /\ relayStatuses[WssDamus].error = "timeout"
    /\ relayStatuses[WssDamus].eventsReceived = 1
    /\ SubscriptionCount(WssDamus) = 0
    /\ Monitored(WssNostrMom)
    /\ relayStatuses[WssNostrMom].connected = TRUE
    /\ relayStatuses[WssNostrMom].eventsReceived = 1
    /\ SubscriptionCount(WssNostrMom) > 0

\* the count the distribution dist holds for url under topic h
DistributionCount(dist, h, url) == IF h \in DOMAIN dist THEN CountOf(dist[h], url) ELSE 0

(* C25: the dispatch of a message delivered by a monitored relay sets that    *)
(* relay's status to connected = true, adds exactly 1 to its eventsReceived,  *)
(* clears its error, raises the relay's count in the distribution of every    *)
(* topic the message references (whether or not the message is already        *)
(* listed), leaves the message listed under each of these topics, and changes *)
(* the status of no other relay.                                              *)
C25_Dispatch ==
    [][\A url \in RelayUrls, e \in ServiceEvents :
          (Monitored(url) /\ Deliver(url, e)) =>
             /\ DOMAIN relayStatuses' = DOMAIN relayStatuses
             /\ relayStatuses'[url].connected = TRUE
             /\ relayStatuses'[url].eventsReceived = relayStatuses[url].eventsReceived + 1
             /\ relayStatuses'[url].error = Undefined
             /\ \A h \in Range(Hashtags(e)) :
                    /\ DistributionCount(hashtagRelayDistribution', h, url)
                          > DistributionCount(hashtagRelayDistribution, h, url)
                    /\ h \in DOMAIN hashtagEvents'
                    /\ e.id \in Range(Ids(hashtagEvents'[h]))
             /\ \A other \in DOMAIN relayStatuses \ {url} :
                    relayStatuses'[other] = relayStatuses[other]]_vars

(* a relay has delivered the same note twice: both deliveries are counted in *)
(* its status and in the distribution, the note is listed once               *)
C25_Witness ==
    /\ Monitored(WssDamus)
    /\ relayStatuses[WssDamus].connected = TRUE
    /\ relayStatuses[WssDamus].eventsReceived = 2
    /\ DeliveryCallsOf(Bitcoin, WssDamus) = 2
    /\ DistributionCount(hashtagRelayDistribution, NostrTag, WssDamus) = 2
    /\ Len(getHashtagEvents(Bitcoin)) = 1

\* the urls that get a status in this step
AutoAdded == DOMAIN relayStatuses' \ DOMAIN relayStatuses

(* C26: a relay list that reaches the service is fed to processNip65Event,  *)
(* and the relays the service adds on its account are the relays that call  *)
(* returns and that are not monitored yet; so every relay added is a valid  *)
(* relay url outside the blacklist with enough recommendations.             *)
C26_AutoDiscovery ==
    [][\A e \in LoadedRelayLists \cup ListsWithBadRelays :
          processRelayListEvent(e) =>
             \E r \in {Nip65Result(config, relayRecommendations, e)} :
                /\ relayRecommendations' = r.table
                /\ AutoAdded = Range(r.newRelays) \ DOMAIN relayStatuses
                /\ \A url \in AutoAdded :
                       /\ isValidRelayUrl(url)
                       /\ ~isBlacklisted(config, url)]_vars

(* C27: once disconnect() has been called the timer pipeline is over for   *)
(* good, and a message a relay delivers from then on changes neither the   *)
(* Topic Index nor the relay statuses nor the counters.                    *)
C27_Teardown ==
    [][stopCleanup =>
          /\ cleanupTimer' = "completed"
          /\ \A url \in RelayUrls, e \in ServiceEvents :
                 Deliver(url, e) =>
                    UNCHANGED <<hashtagEvents, hashtagRelayDistribution, relayStatuses,
                                eventCounts>>]_vars

(* C28: until disconnect() the sweep fires every 10 minutes and deletes the  *)
(* entries last seen more than maxAgeHours ago: an entry that is that old is *)
(* out of the table once a further 10 minutes have passed, whether or not    *)
(* getRecommendedRelays is called.                                           *)
C28_PeriodicSweep ==
    [][(~stopCleanup /\ now' - now >= SweepInterval) =>
          \A i \in DOMAIN relayRecommendations :
             TooOld(relayRecommendations[i]) =>
                relayRecommendations[i].url \notin Keys(relayRecommendations')]_vars

(* C29: a step that is no call of connectToRelay for a relay opens no        *)
(* subscription to it, and once a subscription of the relay has failed the   *)
(* relay is disconnected with no subscription left to deliver for it: until  *)
(* connectToRelay is called, no message of the relay can be dispatched, and  *)
(* its status stays disconnected with eventsReceived as it was.              *)
C29_NoRetry ==
    [][\A url \in RelayUrls :
          /\ ~Connects(url) => SubscriptionCount(url)' <= SubscriptionCount(url)
          /\ \A message \in ErrorMessages :
                 (Monitored(url) /\ SubscriptionError(url, message)) =>
                    /\ ~relayStatuses'[url].connected
                    /\ SubscriptionCount(url)' = 0]_vars

\* a threshold that is not negative, a positive maxAgeHours and a positive maxRelays
ValidConfig(cfg) ==
    /\ cfg.minFolloweeRecommendations >= 0
    /\ cfg.maxAgeHours > 0
    /\ cfg.maxRelays > 0

(* C30: the construction of an engine with a negative threshold, or with a *)
(* maxAgeHours or maxRelays of zero or less, fails, so that every engine   *)
(* that has processed a message has a valid configuration.                 *)
C30_ConfigValidation ==
    lastCall.op \in {"processNip65Event", "processNip19Hints", "processContactEvent"}
        => ValidConfig(config)

(* C31: what a read returned stays as it was returned: the list a caller got *)
(* from getHashtagEvents is not changed by deliveries that come after the    *)
(* call.                                                                     *)
C31_Snapshot == reader.made => ReaderSees = reader.returned

(* C32: every subscription that is open was requested with a since of the *)
(* time of its subscribe call, in seconds, minus 1800: also the one opened *)
(* for a relay that is added long after the service was started.           *)
C32_SubscriptionWindow ==
    \A url \in DOMAIN subscriptionRequests :
        subscriptionRequests[url].since = (subscriptionRequests[url].at \div 1000) - 1800

\* the call leaves the table and the followed pubkeys alone and returns []
NoOp ==
    /\ lastCall'.result = <<>>
    /\ relayRecommendations' = relayRecommendations
    /\ followedPubkeys' = followedPubkeys

(* C33: a processor that does not apply does nothing: processNip65Event of   *)
(* an event that is not of kind 10002, processContactEvent of an event that  *)
(* is not of kind 3, and any processor whose source is switched off, return  *)
(* [] and leave the recommendations and the followed pubkeys as they were.   *)
C33_NotApplicable ==
    [][\A e \in DiscoveryEvents \cup MisdirectedEvents :
          /\ (/\ lastCall'.op = "processNip65Event"
              /\ processNip65Event(e)
              /\ (~config.nip65Enabled \/ e.kind # 10002)) => NoOp
          /\ (/\ lastCall'.op = "processContactEvent"
              /\ processContactEvent(e)
              /\ (~config.followContactRelays \/ e.kind # 3)) => NoOp
          /\ (/\ lastCall'.op = "processNip19Hints"
              /\ processNip19Hints(e)
              /\ ~config.nip19Enabled) => NoOp]_vars

\* a switched-off processNip65Event was called on an engine that holds
\* recommendations from its other sources
C33_Witness ==
    /\ lastCall.op = "processNip65Event"
    /\ ~config.nip65Enabled
    /\ relayRecommendations # <<>>
    /\ followedPubkeys # {}

(* C34: one entry per relay: the keys of the recommendations are normalized *)
(* urls, so normalizing a key again gives the key, no key ends in a slash,   *)
(* and no two keys differ only by a trailing slash.                          *)
C34_OneKeyPerRelay ==
    \A key \in Keys(relayRecommendations) :
        /\ normalizeRelayUrl(key) = key
        /\ key[Len(key)] # "/"
        /\ key \o <<"/">> \notin Keys(relayRecommendations)

(* C35: every monitored relay has at most one open subscription, whatever  *)
(* connectToRelay calls and relay lists came, so a note that the relay      *)
(* sends once is dispatched once.                                           *)
C35_OneSubscription ==
    \A url \in DOMAIN relayStatuses : SubscriptionCount(url) <= 1

RECURSIVE CountedDeliveries(_)
\* the sum of the counts of the relays of one hashtag
CountedDeliveries(relayDist) ==
    IF relayDist = <<>> THEN 0
    ELSE Head(relayDist).count + CountedDeliveries(Tail(relayDist))

(* C36: the delivery is counted before the note is stored: every hashtag   *)
(* that has notes in its list has a distribution, and the counts of its    *)
(* relays sum up to at least the number of notes in the list.              *)
C36_CountedBeforeStored ==
    \A h \in DOMAIN hashtagEvents :
        hashtagEvents[h] # <<>> =>
            /\ h \in DOMAIN hashtagRelayDistribution
            /\ CountedDeliveries(hashtagRelayDistribution[h]) >= Len(hashtagEvents[h])

\* a hashtag with two notes in its list, delivered by two relays
C36_Witness ==
    \E h \in DOMAIN hashtagEvents :
        /\ Len(hashtagEvents[h]) = 2
        /\ h \in DOMAIN hashtagRelayDistribution
        /\ Len(hashtagRelayDistribution[h]) = 2

(* C37: a monitored relay that is connected has received at least one event *)
(* and shows no error, and as long as a relay stays monitored its            *)
(* eventsReceived does not go down.                                          *)
C37_StatusInvariant ==
    /\ [](\A url \in DOMAIN relayStatuses :
              relayStatuses[url].connected =>
                 /\ relayStatuses[url].eventsReceived >= 1
                 /\ relayStatuses[url].error = Undefined)
    /\ [][\A url \in DOMAIN relayStatuses \cap DOMAIN relayStatuses' :
              relayStatuses'[url].eventsReceived >= relayStatuses[url].eventsReceived]_vars

\* a connected relay that delivered one event, next to one that failed with an
\* error text
C37_Witness ==
    \E url \in DOMAIN relayStatuses :
        /\ relayStatuses[url].connected
        /\ relayStatuses[url].eventsReceived = 1
        /\ \E other \in DOMAIN relayStatuses :
               ~relayStatuses[other].connected /\ relayStatuses[other].error = "timeout"

\* every entry of the table before is in the table after, with sets and sources
\* that hold what they held and a lastSeen that is not lower
Grown(before, after) ==
    \A i \in DOMAIN before : \E j \in DOMAIN after :
        /\ after[j].url = before[i].url
        /\ before[i].readRecommendations \subseteq after[j].readRecommendations
        /\ before[i].writeRecommendations \subseteq after[j].writeRecommendations
        /\ Range(before[i].sources) \subseteq Range(after[j].sources)
        /\ after[j].lastSeen >= before[i].lastSeen

(* C38: endorsements add and repeat without effect: under each of the three *)
(* processors the sets and the sources of an entry only grow and its         *)
(* lastSeen does not go down, and the same event processed once more leaves  *)
(* the table as the first processing left it.                                *)
C38_AdditiveIdempotent ==
    [][\A e \in DiscoveryEvents :
          /\ (lastCall'.op = "processNip65Event" /\ processNip65Event(e)) =>
                 /\ Grown(relayRecommendations, relayRecommendations')
                 /\ Nip65Result(config, relayRecommendations', e).table = relayRecommendations'
          /\ (lastCall'.op = "processNip19Hints" /\ processNip19Hints(e)) =>
                 /\ Grown(relayRecommendations, relayRecommendations')
                 /\ Nip19Result(config, relayRecommendations', e).table = relayRecommendations'
          /\ (lastCall'.op = "processContactEvent" /\ processContactEvent(e)) =>
                 /\ Grown(relayRecommendations, relayRecommendations')
                 /\ ContactResult(config, relayRecommendations', e).table = relayRecommendations'
                 /\ ContactFollowed(config, followedPubkeys', e) = followedPubkeys']_vars

\* an entry endorsed by an event of time 3600 and by an older one of time 0,
\* from two sources
C38_Witness ==
    \E i \in DOMAIN relayRecommendations :
        /\ {Alice, Bob} \subseteq relayRecommendations[i].readRecommendations
        /\ Len(relayRecommendations[i].sources) >= 2
        /\ relayRecommendations[i].lastSeen = 3600000

(* C39: the lastSeen of an entry is never ahead of the clock: it is at most *)
(* the time at which the endorsing event was processed, whatever created_at *)
(* the event carries, so that the entry ages from then on.                  *)
C39_LastSeenNotAhead ==
    \A i \in DOMAIN relayRecommendations : relayRecommendations[i].lastSeen <= now

(* C40: what subscribers of relayStatuses$ were given last is the internal   *)
(* map: the same relays with the same field values, after the construction, *)
(* connectToRelay, removeRelay, every dispatch and every error.             *)
C40_PublishedTracksInternal ==
    /\ DOMAIN relayStatusesPub = DOMAIN relayStatuses
    /\ \A url \in DOMAIN relayStatuses : relayStatusesPub[url] = relayStatuses[url]

====
